---- MODULE Spec2Model ----
(***************************************************************************)
(* Maestro backend: the agentic task-sequencing loop.                      *)
(*                                                                         *)
(* The backend is a single Node.js process.  Every HTTP request and every  *)
(* WebSocket message starts a handler invocation that runs until its next  *)
(* `await` and is resumed later, so handler invocations interleave at      *)
(* their await points.  One action of this model is one such segment: the  *)
(* awaited operation (a database statement, the planner call, a snapshot   *)
(* request) takes effect and the synchronous code after it runs up to the  *)
(* next await.                                                             *)
(*                                                                         *)
(* Handler invocations are numbered 1..MaxProcs in order of arrival.  The  *)
(* uuid that an invocation draws for the session, task or snapshot request *)
(* it creates is modelled by the number of the invocation: an invocation   *)
(* creates at most one of each, so the ids are unique as uuids are.        *)
(*                                                                         *)
(* Spec covers the interactive entry points with one executor id: POST     *)
(* /api/ai/start for a prompt without a future time, the task_result       *)
(* message, POST /api/ai/continue and POST /api/ai/stop, together with     *)
(* connects, disconnects and snapshot answers of the executor.  In Spec    *)
(* the planner call returns any of its results in one step.                *)
(*                                                                         *)
(* SchedSpec, OverlapSpec and HoldSpec cover the scheduler                 *)
(* (checkAndExecuteScheduledTasks, executeScheduledTask) with the requests *)
(* that store work for a later time: SchedSpec runs ticks one after the    *)
(* other over a clock long enough for two stuck recoveries, OverlapSpec    *)
(* lets two ticks run at the same time, HoldSpec has requests with         *)
(* different due times.  PlannerSpec runs generateTask attempt by attempt  *)
(* against the answers of the oracle, for the immediate start and the      *)
(* continuations after task results.  TruncSpec takes a page of the        *)
(* executor's tab through executeExtractPageHtml and truncatePageContext,  *)
(* for pages and character budgets drawn from bounded sets.  ResultSpec    *)
(* has the standalone tasks of POST /api/tasks/create, sent at once or by  *)
(* the scheduler, and the task_result messages for them.                   *)
(* StopSpec has one deferred session, POST /api/ai/stop before it is due,  *)
(* and the scheduler's tick at the due time.  ChannelSpec is the           *)
(* extension's side of the channel: its connection to the backend, the     *)
(* reconnect timers, the heartbeats of both ends and the messages it       *)
(* sends.                                                                  *)
(***************************************************************************)
EXTENDS Integers, Sequences, FiniteSets, TLC

MaxProcs == 3

Procs == 1..MaxProcs

NoId == 0

\* Scheduler ticks that may be running at the same time.
MaxTicks == 2

Ticks == 1..MaxTicks

\* Times are in minutes.  The clock runs from 0 to MaxTime in steps of
\* ClockStep, and every time a request names is one the clock reaches.
MaxTime == 25

ClockStep == 5

\* The latest due time a request may ask for.
MaxSchedule == 5

ScheduleTimes == {t \in 1..MaxSchedule : t % ClockStep = 0}

\* The latest due time where requests ask for different due times.
MaxHold == 10

HoldTimes == {t \in 1..MaxHold : t % ClockStep = 0}

\* A NULL timestamp column.
NoTime == -1

\* The bodies of POST /api/tasks/create: userId (absent: 'anonymous') and
\* whether extensionId is given.
CreateRequests ==
  {[user |-> "anonymous", ext |-> TRUE],
   [user |-> "other", ext |-> TRUE],
   [user |-> "anonymous", ext |-> FALSE]}

Terminal == {"completed", "cancelled"}

VARIABLES
  status,                  \* ai_sessions.status by session id ("none": no row)
  history,                 \* ai_sessions.conversation_history by session id
  taskStatus,              \* tasks.status by task id ("none": no row)
  extensionConnections,    \* TRUE iff the registry holds an open socket of the executor
  activeAISessions,        \* Map<sessionId, taskId>; NoId: no entry
  pendingPageHtmlRequests, \* request ids of the unanswered snapshot requests
  sentTasks,               \* ids of the tasks sent to the executor ({type:'task'})
  sentRequests,            \* ids of the snapshot requests sent to the executor
  procs,                   \* the handler invocations: position and local variables
  now,                     \* the wall clock (new Date()), in minutes
  taskScheduledAt,         \* tasks.scheduled_at by task id (NoTime: NULL)
  taskStartedAt,           \* tasks.started_at by task id (NoTime: NULL)
  taskUser,                \* tasks.user_id of the tasks made by POST /api/tasks/create
  taskExtension,           \* their tasks.extension_id: TRUE the executor's id, FALSE NULL
  sessScheduledAt,         \* ai_sessions.scheduled_at by session id (NoTime: NULL)
  sessUser,                \* ai_sessions.user_id by session id
  ticks,                   \* the running invocations of checkAndExecuteScheduledTasks
  schedLog,                \* what the scheduler has done to each task, as counters
  GEMINI_API_KEY,          \* TRUE iff process.env.GEMINI_API_KEY is set
  gen,                     \* the call of generateTask made by each handler invocation
  document,                \* the page in the executor's tab: its visible interactive elements
  pageData,                \* the snapshot returned by executeExtractPageHtml
  maxChars,                \* the character budget given to truncatePageContext
  pageContext,             \* the text truncatePageContext returns, by its lengths and parts
  worker,                  \* the globals of the extension's background service worker
  sockets,                 \* the WebSockets the extension has created: both ends
  linkUp,                  \* TRUE iff the network carries messages between the two ends
  server,                  \* the backend's registry entry for the executor id, and its silence
  outbox                   \* the messages the extension has passed to sendToBackend

taskCols == <<taskScheduledAt, taskStartedAt, taskUser, taskExtension>>

sessCols == <<sessScheduledAt, sessUser>>

schedVars == <<now, taskCols, sessCols, ticks, schedLog>>

truncVars == <<document, pageData, maxChars, pageContext>>

plannerVars == <<GEMINI_API_KEY, gen, truncVars>>

extVars == <<worker, sockets, linkUp, server, outbox>>

vars == <<status, history, taskStatus, extensionConnections, activeAISessions,
          pendingPageHtmlRequests, sentTasks, sentRequests, procs,
          schedVars, plannerVars, extVars>>

dbVars == <<status, history, taskStatus>>

chanVars == <<extensionConnections, pendingPageHtmlRequests, sentTasks, sentRequests>>

\* A handler invocation that has not arrived yet.  The fields are the handler's
\* local variables; `late` notes that a task_result arrived when its task's
\* session was already cancelled, and `did` is the log of what the invocation
\* has done so far.
Blank ==
  [kind |-> "none", pc |-> "idle", session |-> NoId, task |-> NoId,
   hist |-> <<>>, sessStatus |-> "unread", isComplete |-> FALSE,
   page |-> FALSE, error |-> FALSE, late |-> FALSE, did |-> {}, todo |-> {}]

\* A scheduler tick that is not running.  `queue` is the rest of the list the
\* tick is looping over, `verified` the verifiedTasks collected so far, `phase`
\* the loop that called executeScheduledTask, `task` and `aiSession` its locals
\* and `child` the invocation that holds its snapshot request and continuation.
BlankTick ==
  [pc |-> "idle", phase |-> "none", queue |-> <<>>, verified |-> <<>>,
   task |-> NoId, aiSession |-> NoId, child |-> NoId]

\* What the scheduler has done to a task: how often it marked the task started
\* (updateTaskStatus(id, 'started')), how often stuck recovery set it back from
\* started to pending, and how often the scheduler sent the task itself.
BlankLog == [started |-> 0, resets |-> 0, sends |-> 0]

\* A call of generateTask that has not begun: the loop's locals `attempt` and
\* `lastError`, the number of upstream calls made (model.generateContent), what
\* kind of answer each of them got, the waits between attempts in
\* milliseconds, and the returned isComplete.
BlankGen ==
  [pc |-> "idle", attempt |-> 0, calls |-> 0, lastError |-> "none",
   answers |-> <<>>, waits |-> <<>>, isComplete |-> FALSE]

\* Empty tables and maps, no socket, no timer running.
InitStore ==
  /\ status = [s \in Procs |-> "none"]
  /\ history = [s \in Procs |-> <<>>]
  /\ taskStatus = [t \in Procs |-> "none"]
  /\ extensionConnections = FALSE
  /\ activeAISessions = [s \in Procs |-> NoId]
  /\ pendingPageHtmlRequests = {}
  /\ sentTasks = {}
  /\ sentRequests = {}
  /\ procs = [p \in Procs |-> Blank]
  /\ now = 0
  /\ taskScheduledAt = [t \in Procs |-> NoTime]
  /\ taskStartedAt = [t \in Procs |-> NoTime]
  /\ taskUser = [t \in Procs |-> "none"]
  /\ taskExtension = [t \in Procs |-> FALSE]
  /\ sessScheduledAt = [s \in Procs |-> NoTime]
  /\ sessUser = [s \in Procs |-> "none"]
  /\ ticks = [k \in Ticks |-> BlankTick]
  /\ schedLog = [t \in Procs |-> BlankLog]
  /\ gen = [p \in Procs |-> BlankGen]

\* No page has been extracted and no planner context has been built.
NoPage == [url |-> "", interactiveElements |-> <<>>]

NoContext == [length |-> 0, listed |-> <<>>]

NoPageYet ==
  /\ document = NoPage
  /\ pageData = NoPage
  /\ maxChars = 0
  /\ pageContext = NoContext

\* Sockets the extension may create, in order of creation.
MaxSockets == 3

Sockets == 1..MaxSockets

\* The service worker's globals as the script sets them, before any listener
\* has run.  `lastPongTime` is kept as the number of ping intervals since the
\* last message of the backend; `initAwait` counts the calls of initWebSocket
\* that wait for chrome.storage, `connTimers` holds the connection timers that
\* are running (by the socket they were started with), `waits` the delays of
\* the reconnect timers that have fired since the last open.
BlankWorker ==
  [started |-> 0, ws |-> 0, reconnectAttempts |-> 0, reconnectTimeout |-> 0,
   isConnecting |-> FALSE, connectionTimeout |-> 0, connTimers |-> {},
   pingInterval |-> FALSE, lastPongTime |-> 0, initAwait |-> 0, waits |-> <<>>]

\* A socket that has not been created: `client` is the readyState in the
\* extension, `attached` whether the extension's handlers are still set on
\* it, `srv` the state of the backend's end.
BlankSocket == [client |-> "none", attached |-> FALSE, srv |-> "none"]

\* The extension has not started and nothing has connected.
ChannelIdle ==
  /\ worker = BlankWorker
  /\ sockets = [k \in Sockets |-> BlankSocket]
  /\ linkUp = TRUE
  /\ server = [registered |-> 0, silence |-> 0]
  /\ outbox = [queued |-> 0, delivered |-> 0, lost |-> 0]

Init ==
  /\ InitStore
  /\ NoPageYet
  /\ ChannelIdle
  /\ GEMINI_API_KEY = TRUE

\* The next invocation to arrive takes the lowest unused number.
Arrives(p) ==
  /\ procs[p].pc = "idle"
  /\ \A q \in Procs : q < p => procs[q].pc # "idle"

\* The handler invocation is over.
Finished(p) == procs[p].pc \in {"done", "failed", "rejected", "skipped", "ignored"}

Min(S) == CHOOSE x \in S : \A y \in S : x <= y

Range(f) == {f[i] : i \in DOMAIN f}

IsPrefix(a, b) ==
  /\ Len(a) <= Len(b)
  /\ \A i \in 1..Len(a) : a[i] = b[i]

\* The session a task was created for (the creating invocation's session).
TaskSession(t) == procs[t].session

----
\* wss.on('connection') / ws.on('close')

Connect ==
  /\ ~extensionConnections
  /\ extensionConnections' = TRUE
  /\ UNCHANGED <<dbVars, activeAISessions, pendingPageHtmlRequests, sentTasks,
                 sentRequests, procs>>
  /\ UNCHANGED <<schedVars, plannerVars, extVars>>

Disconnect ==
  /\ extensionConnections
  /\ extensionConnections' = FALSE
  /\ UNCHANGED <<dbVars, activeAISessions, pendingPageHtmlRequests, sentTasks,
                 sentRequests, procs>>
  /\ UNCHANGED <<schedVars, plannerVars, extVars>>

----
\* History entries.  `timestamp` is the entry's own timestamp; it is modelled
\* by the number of the appending invocation, which tells the entries of two
\* invocations apart as the wall clock does.

\* The entry that records the planned task `t` (no result, no error).
PlanEntry(p, t) == [task |-> t, outcome |-> "none", timestamp |-> p]

\* The entry that records the outcome of the last task.
OutcomeEntry(p) ==
  [task |-> procs[p].task,
   outcome |-> IF procs[p].error THEN "error" ELSE "result",
   timestamp |-> p]

\* A status check that only looks for 'cancelled' (lets completed sessions pass).
SessionIsActiveNotCancelled(st) == st # "cancelled"

\* if (session.status !== 'active') throw / return
SessionIsActive(st) == st = "active"

\* sendTaskToExtension: TRUE iff the socket is registered and open.
CanSend == extensionConnections

\* sendTaskToExtension(extensionId, task) for the task created by invocation p,
\* followed on success by activeAISessions.set(sessionId, {taskId}).  `ok` is
\* whether ws.send returns; when it throws, the socket is dropped from the
\* registry and the task counts as not sent.
Dispatch(p, ok) ==
  IF CanSend /\ ok
    THEN /\ sentTasks' = sentTasks \cup {p}
         /\ activeAISessions' = [activeAISessions EXCEPT ![procs[p].session] = p]
         /\ UNCHANGED extensionConnections
    ELSE /\ extensionConnections' = FALSE
         /\ UNCHANGED <<sentTasks, activeAISessions>>

----
\* POST /api/ai/start (immediate branch)

\* createAISession inserts the session row; then requestPageHtmlFromExtension
\* rejects at once without a socket, else registers and sends the request.
PostStart(p) ==
  /\ Arrives(p)
  /\ status' = [status EXCEPT ![p] = "active"]
  /\ history' = [history EXCEPT ![p] = <<>>]
  /\ IF extensionConnections
       THEN /\ pendingPageHtmlRequests' = pendingPageHtmlRequests \cup {p}
            /\ sentRequests' = sentRequests \cup {p}
            /\ procs' = [procs EXCEPT ![p] =
                 [Blank EXCEPT !.kind = "start", !.pc = "start_wait_page", !.session = p]]
       ELSE /\ UNCHANGED <<pendingPageHtmlRequests, sentRequests>>
            /\ procs' = [procs EXCEPT ![p] =
                 [Blank EXCEPT !.kind = "start", !.pc = "failed", !.session = p]]
  /\ UNCHANGED <<taskStatus, extensionConnections, activeAISessions, sentTasks>>
  /\ UNCHANGED <<schedVars, plannerVars, extVars>>

\* handlePageHtmlResponse: the page_html message with the request's id settles
\* the request; POST /start goes on to call the planner.
PageHtmlResponse(p) ==
  /\ procs[p].pc = "start_wait_page"
  /\ p \in pendingPageHtmlRequests
  /\ extensionConnections
  /\ pendingPageHtmlRequests' = pendingPageHtmlRequests \ {p}
  /\ procs' = [procs EXCEPT ![p].pc = "start_planning"]
  /\ UNCHANGED <<dbVars, extensionConnections, activeAISessions, sentTasks, sentRequests>>
  /\ UNCHANGED <<schedVars, plannerVars, extVars>>

\* A timer that rejects the request and leaves its entry in the map.
PageHtmlTimeoutKeepsPending(p) ==
  /\ procs[p].pc = "start_wait_page"
  /\ p \in pendingPageHtmlRequests
  /\ procs' = [procs EXCEPT ![p].pc = "failed"]
  /\ UNCHANGED <<dbVars, chanVars, activeAISessions>>
  /\ UNCHANGED <<schedVars, plannerVars, extVars>>

\* The 10 second timer of the request fires: the request is dropped and rejected.
PageHtmlTimeout(p) ==
  /\ procs[p].pc = "start_wait_page"
  /\ p \in pendingPageHtmlRequests
  /\ pendingPageHtmlRequests' = pendingPageHtmlRequests \ {p}
  /\ procs' = [procs EXCEPT ![p].pc = "failed"]
  /\ UNCHANGED <<dbVars, extensionConnections, activeAISessions, sentTasks, sentRequests>>
  /\ UNCHANGED <<schedVars, plannerVars, extVars>>

\* generateTask returns (or throws) in POST /start and its locals are gone.
\* taskData.isComplete is only copied into the response: the handler goes on
\* to createTask.
StartPlannerReturn(p, r) ==
  /\ procs[p].pc = "start_planning"
  /\ procs' = [procs EXCEPT ![p] =
       IF r = "error" THEN [@ EXCEPT !.pc = "failed"]
       ELSE [@ EXCEPT !.pc = "start_create", !.isComplete = (r = "complete")]]
  /\ gen' = [gen EXCEPT ![p] = BlankGen]
  /\ UNCHANGED <<dbVars, chanVars, activeAISessions>>
  /\ UNCHANGED <<schedVars, GEMINI_API_KEY, truncVars, extVars>>

\* createTask inserts the task row with status 'pending'.
StartCreateTask(p) ==
  /\ procs[p].pc = "start_create"
  /\ taskStatus' = [taskStatus EXCEPT ![p] = "pending"]
  /\ procs' = [procs EXCEPT ![p].pc = "start_hist_read", ![p].did = @ \cup {"create"}]
  /\ UNCHANGED <<status, history, chanVars, activeAISessions>>
  /\ UNCHANGED <<schedVars, plannerVars, extVars>>

\* addToConversationHistory, first half: getAISession reads the stored history.
StartHistRead(p) ==
  /\ procs[p].pc = "start_hist_read"
  /\ procs' = [procs EXCEPT ![p].pc = "start_hist_write",
                            ![p].hist = history[procs[p].session]]
  /\ UNCHANGED <<dbVars, chanVars, activeAISessions>>
  /\ UNCHANGED <<schedVars, plannerVars, extVars>>

\* addToConversationHistory, second half: updateAISession stores the history
\* that was read plus the new entry.  Then sendTaskToExtension and
\* activeAISessions.set.
StartHistWrite(p, ok) ==
  /\ procs[p].pc = "start_hist_write"
  /\ history' = [history EXCEPT ![procs[p].session] = Append(procs[p].hist, PlanEntry(p, p))]
  /\ (CanSend \/ ok)
  /\ Dispatch(p, ok)
  /\ procs' = [procs EXCEPT ![p].hist = <<>>,
       ![p].pc = IF CanSend /\ ok THEN "done" ELSE "failed",
       ![p].did = IF CanSend /\ ok THEN @ \cup {"append2", "send"} ELSE @ \cup {"append2"}]
  /\ UNCHANGED <<status, taskStatus, pendingPageHtmlRequests, sentRequests>>
  /\ UNCHANGED <<schedVars, plannerVars, extVars>>

----
\* WebSocket message task_result: handleExtensionMessage, continueAITaskSequence

\* The session whose tracked in-flight task is t (activeAISessions ... find).
\* The session a task was planned for, whether or not it still tracks the task.
TrackedByOwner(t) == {s \in Procs : s = TaskSession(t)}

TrackedBy(t) == {s \in Procs : activeAISessions[s] = t}

\* The session the task was planned for has been cancelled (a standalone task
\* has no session).
TaskCancelled(t) == TaskSession(t) # NoId /\ status[TaskSession(t)] = "cancelled"

\* A task_result for a task that was sent to the executor arrives.  Without a
\* tracking session or without page data the message has no effect (its result
\* and error are dropped unread); else continueAITaskSequence starts and awaits
\* getAISession.
TaskResult(p, t, page, err) ==
  /\ Arrives(p)
  /\ extensionConnections
  /\ t \in sentTasks
  /\ procs' = [procs EXCEPT ![p] =
       IF TrackedBy(t) # {} /\ page
         THEN [Blank EXCEPT !.kind = "ws", !.pc = "ws_get", !.task = t, !.page = TRUE,
                            !.error = err, !.session = Min(TrackedBy(t)),
                            !.late = TaskCancelled(t)]
         ELSE [Blank EXCEPT !.kind = "ws", !.pc = "ignored", !.task = t, !.page = page,
                            !.late = TaskCancelled(t)]]
  /\ UNCHANGED <<dbVars, chanVars, activeAISessions>>
  /\ UNCHANGED <<schedVars, plannerVars, extVars>>

\* continueAITaskSequence: getAISession returns; a session that is not active
\* is skipped.  Otherwise getTask reads the task row (its id, type, params and
\* reasoning never change after createTask, so the read is folded into this step).
WsGetSession(p) ==
  /\ procs[p].pc = "ws_get"
  /\ procs' = [procs EXCEPT ![p].pc =
       IF SessionIsActive(status[procs[p].session]) THEN "ws_update_task" ELSE "skipped"]
  /\ UNCHANGED <<dbVars, chanVars, activeAISessions>>
  /\ UNCHANGED <<schedVars, plannerVars, extVars>>

\* updateTaskStatus(completedTaskId, taskError ? 'failed' : 'completed'), then
\* continueTaskSequence is entered.
WsUpdateTask(p) ==
  /\ procs[p].pc = "ws_update_task"
  /\ taskStatus' = [taskStatus EXCEPT ![procs[p].task] =
       IF procs[p].error THEN "failed" ELSE "completed"]
  /\ procs' = [procs EXCEPT ![p].pc = "cts_get", ![p].did = @ \cup {"updateTask"}]
  /\ UNCHANGED <<status, history, chanVars, activeAISessions>>
  /\ UNCHANGED <<schedVars, plannerVars, extVars>>

----
\* POST /api/ai/continue

\* The request names a session and the last task (or none).  Without page data
\* continueTaskSequence throws before it reads anything.
PostContinue(p, s, t, page, err) ==
  /\ Arrives(p)
  /\ procs' = [procs EXCEPT ![p] =
       IF page
         THEN [Blank EXCEPT !.kind = "continue", !.pc = "cts_get", !.session = s,
                            !.task = t, !.page = TRUE, !.error = err]
         ELSE [Blank EXCEPT !.kind = "continue", !.pc = "failed"]]
  /\ UNCHANGED <<dbVars, chanVars, activeAISessions>>
  /\ UNCHANGED <<schedVars, plannerVars, extVars>>

----
\* continueTaskSequence

\* getAISession returns: no row or a status other than 'active' throws.
CtsGetSession(p) ==
  /\ procs[p].pc = "cts_get"
  /\ procs' = [procs EXCEPT ![p].sessStatus = status[procs[p].session],
       ![p].pc = IF status[procs[p].session] = "none" THEN "failed"
                 ELSE IF SessionIsActive(status[procs[p].session]) THEN "cts_hist_read1"
                 ELSE "rejected"]
  /\ UNCHANGED <<dbVars, chanVars, activeAISessions>>
  /\ UNCHANGED <<schedVars, plannerVars, extVars>>

\* addToConversationHistory (last task result), first half: read the history.
CtsHistRead1(p) ==
  /\ procs[p].pc = "cts_hist_read1"
  /\ procs' = [procs EXCEPT ![p].pc = "cts_hist_write1",
                            ![p].hist = history[procs[p].session]]
  /\ UNCHANGED <<dbVars, chanVars, activeAISessions>>
  /\ UNCHANGED <<schedVars, plannerVars, extVars>>

\* A write that stores the history as it was read, without the outcome entry.
CtsHistWrite1NoAppend(p) ==
  /\ procs[p].pc = "cts_hist_write1"
  /\ history' = [history EXCEPT ![procs[p].session] = procs[p].hist]
  /\ procs' = [procs EXCEPT ![p].pc = "cts_reread", ![p].hist = <<>>,
                            ![p].did = @ \cup {"append1"}]
  /\ UNCHANGED <<status, taskStatus, chanVars, activeAISessions>>
  /\ UNCHANGED <<schedVars, plannerVars, extVars>>

\* addToConversationHistory (last task result), second half: write it back.
CtsHistWrite1(p) ==
  /\ procs[p].pc = "cts_hist_write1"
  /\ history' = [history EXCEPT ![procs[p].session] = Append(procs[p].hist, OutcomeEntry(p))]
  /\ procs' = [procs EXCEPT ![p].pc = "cts_reread", ![p].hist = <<>>,
                            ![p].did = @ \cup {"append1"}]
  /\ UNCHANGED <<status, taskStatus, chanVars, activeAISessions>>
  /\ UNCHANGED <<schedVars, plannerVars, extVars>>

\* getAISession returns the updated history and generateTask is called.
CtsCallPlanner(p) ==
  /\ procs[p].pc = "cts_reread"
  /\ procs' = [procs EXCEPT ![p].pc = "cts_planning", ![p].did = @ \cup {"plan"}]
  /\ UNCHANGED <<dbVars, chanVars, activeAISessions>>
  /\ UNCHANGED <<schedVars, plannerVars, extVars>>

\* generateTask returns a task, returns isComplete, or throws.
CtsPlannerReturn(p, r) ==
  /\ procs[p].pc = "cts_planning"
  /\ procs' = [procs EXCEPT ![p] =
       IF r = "error" THEN [@ EXCEPT !.pc = "failed"]
       ELSE IF r = "complete" THEN [@ EXCEPT !.pc = "cts_complete", !.isComplete = TRUE]
       ELSE [@ EXCEPT !.pc = "cts_create"]]
  /\ gen' = [gen EXCEPT ![p] = BlankGen]
  /\ UNCHANGED <<dbVars, chanVars, activeAISessions>>
  /\ UNCHANGED <<schedVars, GEMINI_API_KEY, truncVars, extVars>>

\* updateAISession(sessionId, {status: 'completed'}): UPDATE ... WHERE id = ?.
\* continueAITaskSequence then deletes the session from activeAISessions.
CtsComplete(p) ==
  /\ procs[p].pc = "cts_complete"
  /\ status' = [status EXCEPT ![procs[p].session] = "completed"]
  /\ activeAISessions' =
       IF procs[p].kind = "ws"
         THEN [activeAISessions EXCEPT ![procs[p].session] = NoId]
         ELSE activeAISessions
  /\ procs' = [procs EXCEPT ![p].pc = "done"]
  /\ UNCHANGED <<history, taskStatus, chanVars>>
  /\ UNCHANGED <<schedVars, plannerVars, extVars>>

\* createTask inserts the next task row.
CtsCreateTask(p) ==
  /\ procs[p].pc = "cts_create"
  /\ taskStatus' = [taskStatus EXCEPT ![p] = "pending"]
  /\ procs' = [procs EXCEPT ![p].pc = "cts_hist_read2", ![p].did = @ \cup {"create"}]
  /\ UNCHANGED <<status, history, chanVars, activeAISessions>>
  /\ UNCHANGED <<schedVars, plannerVars, extVars>>

\* addToConversationHistory (next task), first half.
CtsHistRead2(p) ==
  /\ procs[p].pc = "cts_hist_read2"
  /\ procs' = [procs EXCEPT ![p].pc = "cts_hist_write2",
                            ![p].hist = history[procs[p].session]]
  /\ UNCHANGED <<dbVars, chanVars, activeAISessions>>
  /\ UNCHANGED <<schedVars, plannerVars, extVars>>

\* addToConversationHistory (next task), second half; then sendTaskToExtension
\* and activeAISessions.set.  No status is read between the planner's answer
\* and the send.
CtsHistWrite2(p, ok) ==
  /\ procs[p].pc = "cts_hist_write2"
  /\ history' = [history EXCEPT ![procs[p].session] = Append(procs[p].hist, PlanEntry(p, p))]
  /\ (CanSend \/ ok)
  /\ Dispatch(p, ok)
  /\ procs' = [procs EXCEPT ![p].hist = <<>>,
       ![p].pc = IF CanSend /\ ok THEN "done" ELSE "failed",
       ![p].did = IF CanSend /\ ok THEN @ \cup {"append2", "send"} ELSE @ \cup {"append2"}]
  /\ UNCHANGED <<status, taskStatus, pendingPageHtmlRequests, sentRequests>>
  /\ UNCHANGED <<schedVars, plannerVars, extVars>>

----
\* POST /api/ai/stop

\* getAISessionsByExtension(extensionId, 'active') returns the active sessions.
PostStop(p) ==
  /\ Arrives(p)
  /\ LET act == {s \in Procs : status[s] = "active"} IN
       procs' = [procs EXCEPT ![p] =
         [Blank EXCEPT !.kind = "stop", !.todo = act,
                       !.pc = IF act = {} THEN "done" ELSE "stop_cancel"]]
  /\ UNCHANGED <<dbVars, chanVars, activeAISessions>>
  /\ UNCHANGED <<schedVars, plannerVars, extVars>>

\* updateAISession(session.id, {status: 'cancelled'}) for the next session of
\* the list: UPDATE ... WHERE id = ?.
StopCancel(p) ==
  /\ procs[p].pc = "stop_cancel"
  /\ status' = [status EXCEPT ![Min(procs[p].todo)] = "cancelled"]
  /\ procs' = [procs EXCEPT ![p].pc = "stop_delete"]
  /\ UNCHANGED <<history, taskStatus, chanVars, activeAISessions>>
  /\ UNCHANGED <<schedVars, plannerVars, extVars>>

\* activeAISessions.delete(session.id); the loop goes to the next session.
StopDelete(p) ==
  /\ procs[p].pc = "stop_delete"
  /\ activeAISessions' = [activeAISessions EXCEPT ![Min(procs[p].todo)] = NoId]
  /\ LET rest == procs[p].todo \ {Min(procs[p].todo)} IN
       procs' = [procs EXCEPT ![p].todo = rest,
                              ![p].pc = IF rest = {} THEN "done" ELSE "stop_cancel"]
  /\ UNCHANGED <<dbVars, chanVars>>
  /\ UNCHANGED <<schedVars, plannerVars, extVars>>

----
PlannerResults == {"task", "complete", "error"}

\* The sessions a POST /continue request may name: the stored ones and an id
\* that names no session (the request's own number is never a session id).
ContinueSessions(p) == {s \in Procs : status[s] # "none"} \cup {p}

\* The last task the request may report: none, or the session's tracked task.
ContinueTasks(s) == {NoId, activeAISessions[s]}

Next ==
  \/ Connect
  \/ Disconnect
  \/ \E p \in Procs : PostStart(p)
  \/ \E p \in Procs : PageHtmlResponse(p)
  \/ \E p \in Procs : PageHtmlTimeout(p)
  \/ \E p \in Procs, r \in PlannerResults : StartPlannerReturn(p, r)
  \/ \E p \in Procs : StartCreateTask(p)
  \/ \E p \in Procs : StartHistRead(p)
  \/ \E p \in Procs, ok \in BOOLEAN : StartHistWrite(p, ok)
  \/ \E p \in Procs, t \in Procs, page \in BOOLEAN, err \in BOOLEAN :
       TaskResult(p, t, page, err)
  \/ \E p \in Procs : WsGetSession(p)
  \/ \E p \in Procs : WsUpdateTask(p)
  \/ \E p \in Procs, s \in Procs, page \in BOOLEAN, err \in BOOLEAN :
       /\ s \in ContinueSessions(p)
       /\ \E t \in ContinueTasks(s) : PostContinue(p, s, t, page, err)
  \/ \E p \in Procs : CtsGetSession(p)
  \/ \E p \in Procs : CtsHistRead1(p)
  \/ \E p \in Procs : CtsHistWrite1(p)
  \/ \E p \in Procs : CtsCallPlanner(p)
  \/ \E p \in Procs, r \in PlannerResults : CtsPlannerReturn(p, r)
  \/ \E p \in Procs : CtsComplete(p)
  \/ \E p \in Procs : CtsCreateTask(p)
  \/ \E p \in Procs : CtsHistRead2(p)
  \/ \E p \in Procs, ok \in BOOLEAN : CtsHistWrite2(p, ok)
  \/ \E p \in Procs : PostStop(p)
  \/ \E p \in Procs : StopCancel(p)
  \/ \E p \in Procs : StopDelete(p)

Spec == Init /\ [][Next]_vars

----
\* Scheduled work: POST /api/ai/start for a prompt with a future time, POST
\* /api/tasks/create with scheduledAt, and the scheduler.  The timer of the
\* scheduler is much shorter than a step of the clock, so a tick may start at
\* any moment; setInterval does not wait for the promise of the previous tick,
\* so a tick may start while earlier ones are still running.  The awaits of a
\* handler take milliseconds to seconds: the clock moves on between the runs
\* of the handlers, not in the middle of one.

\* 5 * 60 * 1000 ms, in minutes.
StuckAfter == 5

AdvanceClockTo(max) ==
  /\ now + ClockStep <= max
  /\ \A k \in Ticks : ticks[k].pc = "idle"
  /\ \A q \in Procs : procs[q].pc = "idle" \/ Finished(q)
  /\ now' = now + ClockStep
  /\ UNCHANGED <<dbVars, chanVars, activeAISessions, procs, taskCols, sessCols,
                 ticks, schedLog, plannerVars, extVars>>

\* POST /api/ai/start, isScheduled, without userId: createAISession stores the
\* session with its scheduled_at; requestPageHtmlFromExtension rejects at once without a
\* socket (caught: pageInfo stays null and the placeholder task is stored),
\* else registers and sends the request.
PostStartScheduled(p, at) ==
  /\ Arrives(p)
  /\ at > now
  /\ status' = [status EXCEPT ![p] = "active"]
  /\ history' = [history EXCEPT ![p] = <<>>]
  /\ sessScheduledAt' = [sessScheduledAt EXCEPT ![p] = at]
  /\ sessUser' = [sessUser EXCEPT ![p] = "anonymous"]
  /\ IF extensionConnections
       THEN /\ pendingPageHtmlRequests' = pendingPageHtmlRequests \cup {p}
            /\ sentRequests' = sentRequests \cup {p}
            /\ procs' = [procs EXCEPT ![p] =
                 [Blank EXCEPT !.kind = "sstart", !.pc = "sstart_wait_page", !.session = p]]
       ELSE /\ UNCHANGED <<pendingPageHtmlRequests, sentRequests>>
            /\ procs' = [procs EXCEPT ![p] =
                 [Blank EXCEPT !.kind = "sstart", !.pc = "sstart_create", !.session = p]]
  /\ UNCHANGED <<taskStatus, extensionConnections, activeAISessions, sentTasks,
                 now, taskCols, ticks, schedLog, plannerVars, extVars>>

\* The page_html answer settles the request; generateTask is called.
SStartPageResponse(p) ==
  /\ procs[p].pc = "sstart_wait_page"
  /\ p \in pendingPageHtmlRequests
  /\ extensionConnections
  /\ pendingPageHtmlRequests' = pendingPageHtmlRequests \ {p}
  /\ procs' = [procs EXCEPT ![p].pc = "sstart_planning", ![p].page = TRUE]
  /\ UNCHANGED <<dbVars, extensionConnections, activeAISessions, sentTasks,
                 sentRequests, schedVars, plannerVars, extVars>>

\* The 10 second timer fires; the rejection is caught and the placeholder task
\* (navigate to about:blank) is stored instead of a planned one.
SStartPageTimeout(p) ==
  /\ procs[p].pc = "sstart_wait_page"
  /\ p \in pendingPageHtmlRequests
  /\ pendingPageHtmlRequests' = pendingPageHtmlRequests \ {p}
  /\ procs' = [procs EXCEPT ![p].pc = "sstart_create"]
  /\ UNCHANGED <<dbVars, extensionConnections, activeAISessions, sentTasks,
                 sentRequests, schedVars, plannerVars, extVars>>

\* generateTask returns or throws; isComplete is not looked at.
SStartPlannerReturn(p, r) ==
  /\ procs[p].pc = "sstart_planning"
  /\ procs' = [procs EXCEPT ![p] =
       IF r = "error" THEN [@ EXCEPT !.pc = "failed"]
       ELSE [@ EXCEPT !.pc = "sstart_create"]]
  /\ gen' = [gen EXCEPT ![p] = BlankGen]
  /\ UNCHANGED <<dbVars, chanVars, activeAISessions, schedVars, GEMINI_API_KEY, truncVars, extVars>>

\* createTask stores the first task, pending, with the requested time (the
\* handler's scheduledAt is the value it stored in the session row, which no
\* statement updates).
SStartCreateTask(p) ==
  /\ procs[p].pc = "sstart_create"
  /\ taskStatus' = [taskStatus EXCEPT ![p] = "pending"]
  /\ taskScheduledAt' = [taskScheduledAt EXCEPT ![p] = sessScheduledAt[p]]
  /\ procs' = [procs EXCEPT ![p].pc = "sstart_hist_read", ![p].did = @ \cup {"create"}]
  /\ UNCHANGED <<status, history, chanVars, activeAISessions, now, taskStartedAt,
                 taskUser, taskExtension, sessCols, ticks, schedLog, plannerVars, extVars>>

\* addToConversationHistory, first half.
SStartHistRead(p) ==
  /\ procs[p].pc = "sstart_hist_read"
  /\ procs' = [procs EXCEPT ![p].pc = "sstart_hist_write",
                            ![p].hist = history[procs[p].session]]
  /\ UNCHANGED <<dbVars, chanVars, activeAISessions, schedVars, plannerVars, extVars>>

\* addToConversationHistory, second half.  Nothing is sent: the handler answers
\* {scheduled: true}.
SStartHistWrite(p) ==
  /\ procs[p].pc = "sstart_hist_write"
  /\ history' = [history EXCEPT ![procs[p].session] = Append(procs[p].hist, PlanEntry(p, p))]
  /\ procs' = [procs EXCEPT ![p].hist = <<>>, ![p].pc = "done",
                            ![p].did = @ \cup {"append2"}]
  /\ UNCHANGED <<status, taskStatus, chanVars, activeAISessions, schedVars, plannerVars, extVars>>

\* POST /api/tasks/create with scheduledAt: the task is stored and not sent.
CreateScheduledTask(p, at, req) ==
  /\ Arrives(p)
  /\ taskStatus' = [taskStatus EXCEPT ![p] = "pending"]
  /\ taskScheduledAt' = [taskScheduledAt EXCEPT ![p] = at]
  /\ taskUser' = [taskUser EXCEPT ![p] = req.user]
  /\ taskExtension' = [taskExtension EXCEPT ![p] = req.ext]
  /\ procs' = [procs EXCEPT ![p] =
       [Blank EXCEPT !.kind = "create", !.pc = "done", !.did = {"create"}]]
  /\ UNCHANGED <<status, history, chanVars, activeAISessions, now, taskStartedAt,
                 sessCols, ticks, schedLog, plannerVars, extVars>>

----
\* The queries of the scheduler.

\* scheduled_at IS NOT NULL AND scheduled_at <= every time.
IsDueAlways(at) == at # NoTime

\* scheduled_at IS NOT NULL AND scheduled_at <= now
IsDue(at) == at # NoTime /\ at <= now

\* The rows of S as a list, ascending by key; rows with equal keys are listed in
\* the order they were inserted.
RECURSIVE Ordered(_, _)
Ordered(S, key) ==
  IF S = {} THEN <<>>
  ELSE LET x == CHOOSE x \in S :
                  \A y \in S : key[x] < key[y] \/ (key[x] = key[y] /\ x <= y)
       IN  <<x>> \o Ordered(S \ {x}, key)

\* tasks.user_id and tasks.extension_id: a task of a session carries the
\* session's user and the executor's id.
TaskUserId(t) == IF TaskSession(t) = NoId THEN taskUser[t] ELSE sessUser[TaskSession(t)]

TaskExtensionId(t) == IF TaskSession(t) = NoId THEN taskExtension[t] ELSE TRUE

\* getDueScheduledTasks
DueTasks == {t \in Procs : taskStatus[t] = "pending" /\ IsDue(taskScheduledAt[t])}

\* !t.started_at || new Date(t.started_at) < new Date(Date.now() - 5 * 60 * 1000)
StartedLongAgo(t) ==
  taskStartedAt[t] = NoTime \/ taskStartedAt[t] < now - StuckAfter

\* getTasksByUser('anonymous', 100).filter(...): the model never holds 100 tasks.
StuckTasks ==
  {t \in Procs : /\ taskStatus[t] = "started"
                 /\ TaskUserId(t) = "anonymous"
                 /\ IsDue(taskScheduledAt[t])
                 /\ StartedLongAgo(t)}

\* getScheduledAISessions
DueSessions == {s \in Procs : status[s] = "active" /\ IsDue(sessScheduledAt[s])}

\* session.conversation_history.find(entry => entry.task), then its task.id.
\* The entries written for a planned task carry the task's id; the entries
\* written for an outcome do not, and getTask(undefined) finds no row.
FirstTaskId(h) ==
  LET withTask == {i \in DOMAIN h : h[i].task # NoId}
  IN  IF withTask = {} THEN NoId
      ELSE IF h[Min(withTask)].outcome = "none" THEN h[Min(withTask)].task
      ELSE NoId

\* getAISessionByTaskId: among the active sessions with the task's extension_id
\* and user_id, the first whose history holds the task's id, else the first
\* whose scheduled_at equals the task's.
GetAISessionByTaskId(t) ==
  LET cand == {s \in Procs : /\ status[s] = "active"
                             /\ TaskExtensionId(t)
                             /\ sessUser[s] = TaskUserId(t)}
      byHist == {s \in cand : \E i \in DOMAIN history[s] :
                   history[s][i].outcome = "none" /\ history[s][i].task = t}
      byTime == {s \in cand : sessScheduledAt[s] = taskScheduledAt[t]}
  IN  IF byHist # {} THEN Min(byHist)
      ELSE IF byTime # {} THEN Min(byTime)
      ELSE NoId

----
\* checkAndExecuteScheduledTasks

\* The tick goes on to getScheduledAISessions.
ToSessions == [BlankTick EXCEPT !.pc = "sessions_query"]

\* for (const task of verifiedTasks): the next call of executeScheduledTask,
\* which awaits getAISessionByTaskId.
NextInBatch(tk) ==
  IF tk.queue = <<>> THEN ToSessions
  ELSE [BlankTick EXCEPT !.pc = "exec_find", !.phase = "batch",
                         !.task = Head(tk.queue), !.queue = Tail(tk.queue)]

\* for (const session of dueAISessions): the next getTask, or the tick is over.
NextSession(tk) ==
  IF tk.queue = <<>> THEN BlankTick
  ELSE [BlankTick EXCEPT !.pc = "session_get_task", !.phase = "sessions",
                         !.task = Head(tk.queue), !.queue = Tail(tk.queue)]

\* executeScheduledTask has returned to the loop that called it.
AfterExec(tk) == IF tk.phase = "batch" THEN NextInBatch(tk) ELSE NextSession(tk)

\* The timer fires (or the scheduler starts) and getDueScheduledTasks answers.
TickStart(k) ==
  /\ ticks[k].pc = "idle"
  /\ \A j \in Ticks : j < k => ticks[j].pc # "idle"
  /\ LET due == Ordered(DueTasks, taskScheduledAt) IN
       ticks' = [ticks EXCEPT ![k] =
         IF due # <<>>
           THEN [BlankTick EXCEPT !.pc = "verify", !.phase = "batch", !.queue = due]
           ELSE [BlankTick EXCEPT !.pc = "stuck_query"]]
  /\ UNCHANGED <<dbVars, chanVars, activeAISessions, procs, now, taskCols, sessCols,
                 schedLog, plannerVars, extVars>>

\* A tick that starts when no other tick is running.
TickStartAlone(k) ==
  /\ \A j \in Ticks : ticks[j].pc = "idle"
  /\ TickStart(k)

\* getTask(task.id) for the next due task: it is kept if it is still pending.
\* After the last one the verified tasks are executed one after the other.
TickVerify(k) ==
  /\ ticks[k].pc = "verify"
  /\ LET tk == ticks[k]
         t == Head(tk.queue)
         kept == IF taskStatus[t] = "pending" THEN Append(tk.verified, t) ELSE tk.verified
     IN  ticks' = [ticks EXCEPT ![k] =
           IF Tail(tk.queue) # <<>>
             THEN [tk EXCEPT !.queue = Tail(tk.queue), !.verified = kept]
             ELSE NextInBatch([tk EXCEPT !.queue = kept])]
  /\ UNCHANGED <<dbVars, chanVars, activeAISessions, procs, now, taskCols, sessCols,
                 schedLog, plannerVars, extVars>>

\* No task is due: getTasksByUser answers and the stuck tasks are filtered out
\* of it (newest first).
TickStuckQuery(k) ==
  /\ ticks[k].pc = "stuck_query"
  /\ LET stuck == Ordered(StuckTasks, [t \in Procs |-> 0 - t]) IN
       ticks' = [ticks EXCEPT ![k] =
         IF stuck # <<>>
           THEN [BlankTick EXCEPT !.pc = "stuck_reset", !.queue = stuck]
           ELSE ToSessions]
  /\ UNCHANGED <<dbVars, chanVars, activeAISessions, procs, now, taskCols, sessCols,
                 schedLog, plannerVars, extVars>>

\* updateTaskStatus(task.id, 'pending') for the next stuck task: UPDATE tasks
\* SET status = ? WHERE id = ?.
TickStuckReset(k) ==
  /\ ticks[k].pc = "stuck_reset"
  /\ LET tk == ticks[k]
         t == Head(tk.queue)
     IN  /\ taskStatus' = [taskStatus EXCEPT ![t] = "pending"]
         /\ schedLog' = [schedLog EXCEPT ![t].resets =
              IF taskStatus[t] = "started" THEN @ + 1 ELSE @]
         /\ ticks' = [ticks EXCEPT ![k] =
              IF Tail(tk.queue) # <<>> THEN [tk EXCEPT !.queue = Tail(tk.queue)]
              ELSE ToSessions]
  /\ UNCHANGED <<status, history, chanVars, activeAISessions, procs, now, taskCols,
                 sessCols, plannerVars, extVars>>

\* getScheduledAISessions answers; the loop looks up the first task of each
\* session that has one.
TickSessionsQuery(k) ==
  /\ ticks[k].pc = "sessions_query"
  /\ LET due == Ordered(DueSessions, sessScheduledAt)
         first == [i \in DOMAIN due |-> FirstTaskId(history[due[i]])]
     IN  ticks' = [ticks EXCEPT ![k] =
           NextSession([BlankTick EXCEPT !.queue = SelectSeq(first, LAMBDA t : t # NoId)])]
  /\ UNCHANGED <<dbVars, chanVars, activeAISessions, procs, now, taskCols, sessCols,
                 schedLog, plannerVars, extVars>>

\* getTask(firstTaskEntry.task.id) answers: a pending task is executed.
TickSessionGetTask(k) ==
  /\ ticks[k].pc = "session_get_task"
  /\ ticks' = [ticks EXCEPT ![k] =
       IF taskStatus[ticks[k].task] = "pending"
         THEN [@ EXCEPT !.pc = "exec_find"]
         ELSE NextSession(@)]
  /\ UNCHANGED <<dbVars, chanVars, activeAISessions, procs, now, taskCols, sessCols,
                 schedLog, plannerVars, extVars>>

----
\* executeScheduledTask

\* getAISessionByTaskId answers.
ExecFindSession(k) ==
  /\ ticks[k].pc = "exec_find"
  /\ ticks' = [ticks EXCEPT ![k].pc = "exec_start",
                            ![k].aiSession = GetAISessionByTaskId(ticks[k].task)]
  /\ UNCHANGED <<dbVars, chanVars, activeAISessions, procs, now, taskCols, sessCols,
                 schedLog, plannerVars, extVars>>

\* updateTaskStatus(task.id, 'started') stores the status and started_at.  Then,
\* for a task of a session: without an open socket the task is to be marked
\* failed, else requestPageHtmlFromExtension registers and sends a request (the
\* request and the continuation that follows it are invocation q).  For a
\* standalone task: without extension_id or open socket the task is to be marked
\* failed, else sendTaskToExtension sends it (`ok`: ws.send returns).
ExecMarkStarted(k, ok) ==
  /\ ticks[k].pc = "exec_start"
  /\ LET tk == ticks[k]
         t == tk.task
         s == tk.aiSession
         sends == s = NoId /\ TaskExtensionId(t) /\ extensionConnections
     IN  /\ taskStatus' = [taskStatus EXCEPT ![t] = "started"]
         /\ taskStartedAt' = [taskStartedAt EXCEPT ![t] = now]
         /\ schedLog' = [schedLog EXCEPT ![t].started = @ + 1,
                                         ![t].sends = IF sends /\ ok THEN @ + 1 ELSE @]
         /\ IF s # NoId /\ extensionConnections
              THEN \E q \in Procs :
                     /\ Arrives(q)
                     /\ ok
                     /\ procs' = [procs EXCEPT ![q] =
                          [Blank EXCEPT !.kind = "sched", !.pc = "sched_wait_page",
                                        !.session = s, !.task = t]]
                     /\ pendingPageHtmlRequests' = pendingPageHtmlRequests \cup {q}
                     /\ sentRequests' = sentRequests \cup {q}
                     /\ ticks' = [ticks EXCEPT ![k].pc = "exec_wait", ![k].child = q]
                     /\ UNCHANGED <<extensionConnections, sentTasks>>
              ELSE IF sends
                THEN /\ sentTasks' = IF ok THEN sentTasks \cup {t} ELSE sentTasks
                     /\ extensionConnections' = ok
                     /\ ticks' = [ticks EXCEPT ![k] =
                          IF ok THEN AfterExec(tk) ELSE [tk EXCEPT !.pc = "exec_fail"]]
                     /\ UNCHANGED <<procs, pendingPageHtmlRequests, sentRequests>>
                ELSE /\ ok
                     /\ ticks' = [ticks EXCEPT ![k].pc = "exec_fail"]
                     /\ UNCHANGED <<procs, chanVars>>
  /\ UNCHANGED <<status, history, activeAISessions, now, taskScheduledAt, taskUser,
                 taskExtension, sessCols, plannerVars, extVars>>

\* The page_html answer settles the scheduler's request and
\* continueTaskSequence is entered with the task as lastTaskResult.
SchedPageResponse(q) ==
  /\ procs[q].pc = "sched_wait_page"
  /\ q \in pendingPageHtmlRequests
  /\ extensionConnections
  /\ pendingPageHtmlRequests' = pendingPageHtmlRequests \ {q}
  /\ procs' = [procs EXCEPT ![q].pc = "cts_get", ![q].page = TRUE]
  /\ UNCHANGED <<dbVars, extensionConnections, activeAISessions, sentTasks,
                 sentRequests, schedVars, plannerVars, extVars>>

\* A timer that rejects but leaves the request in pendingPageHtmlRequests.
SchedPageTimeoutKeepsPending(q) ==
  /\ procs[q].pc = "sched_wait_page"
  /\ q \in pendingPageHtmlRequests
  /\ procs' = [procs EXCEPT ![q].pc = "failed"]
  /\ UNCHANGED <<dbVars, chanVars, activeAISessions, schedVars, plannerVars, extVars>>

\* The 10 second timer of the scheduler's request fires.
SchedPageTimeout(q) ==
  /\ procs[q].pc = "sched_wait_page"
  /\ q \in pendingPageHtmlRequests
  /\ pendingPageHtmlRequests' = pendingPageHtmlRequests \ {q}
  /\ procs' = [procs EXCEPT ![q].pc = "failed"]
  /\ UNCHANGED <<dbVars, extensionConnections, activeAISessions, sentTasks,
                 sentRequests, schedVars, plannerVars, extVars>>

\* continueTaskSequence has returned: executeScheduledTask is over.
ExecReturn(k) ==
  /\ ticks[k].pc = "exec_wait"
  /\ procs[ticks[k].child].pc = "done"
  /\ ticks' = [ticks EXCEPT ![k] = AfterExec(@)]
  /\ UNCHANGED <<dbVars, chanVars, activeAISessions, procs, now, taskCols, sessCols,
                 schedLog, plannerVars, extVars>>

\* updateTaskStatus(task.id, 'failed', null, message): no socket, no
\* extension_id, a send that failed, a snapshot request that failed or a
\* continueTaskSequence that threw.
ExecFail(k) ==
  /\ \/ ticks[k].pc = "exec_fail"
     \/ /\ ticks[k].pc = "exec_wait"
        /\ procs[ticks[k].child].pc \in {"failed", "rejected"}
  /\ taskStatus' = [taskStatus EXCEPT ![ticks[k].task] = "failed"]
  /\ ticks' = [ticks EXCEPT ![k] = AfterExec(@)]
  /\ UNCHANGED <<status, history, chanVars, activeAISessions, procs, now, taskCols,
                 sessCols, schedLog, plannerVars, extVars>>

----
SchedNext ==
  \/ Connect
  \/ Disconnect
  \/ AdvanceClockTo(MaxTime)
  \/ \E p \in Procs, at \in ScheduleTimes : PostStartScheduled(p, at)
  \/ \E p \in Procs : SStartPageResponse(p)
  \/ \E p \in Procs : SStartPageTimeout(p)
  \/ \E p \in Procs, r \in PlannerResults : SStartPlannerReturn(p, r)
  \/ \E p \in Procs : SStartCreateTask(p)
  \/ \E p \in Procs : SStartHistRead(p)
  \/ \E p \in Procs : SStartHistWrite(p)
  \/ \E p \in Procs, at \in ScheduleTimes, req \in CreateRequests :
       CreateScheduledTask(p, at, req)
  \/ \E k \in Ticks : TickStartAlone(k)
  \/ \E k \in Ticks : TickVerify(k)
  \/ \E k \in Ticks : TickStuckQuery(k)
  \/ \E k \in Ticks : TickStuckReset(k)
  \/ \E k \in Ticks : TickSessionsQuery(k)
  \/ \E k \in Ticks : TickSessionGetTask(k)
  \/ \E k \in Ticks : ExecFindSession(k)
  \/ \E k \in Ticks, ok \in BOOLEAN : ExecMarkStarted(k, ok)
  \/ \E q \in Procs : SchedPageResponse(q)
  \/ \E q \in Procs : SchedPageTimeout(q)
  \/ \E k \in Ticks : ExecReturn(k)
  \/ \E k \in Ticks : ExecFail(k)
  \/ \E p \in Procs : CtsGetSession(p)
  \/ \E p \in Procs : CtsHistRead1(p)
  \/ \E p \in Procs : CtsHistWrite1(p)
  \/ \E p \in Procs : CtsCallPlanner(p)
  \/ \E p \in Procs, r \in PlannerResults : CtsPlannerReturn(p, r)
  \/ \E p \in Procs : CtsComplete(p)
  \/ \E p \in Procs : CtsCreateTask(p)
  \/ \E p \in Procs : CtsHistRead2(p)
  \/ \E p \in Procs, ok \in BOOLEAN : CtsHistWrite2(p, ok)

\* The scheduler with sessions and standalone tasks; each tick ends before the
\* next one starts.
SchedSpec == Init /\ [][SchedNext]_vars

OverlapNext ==
  \/ Connect
  \/ Disconnect
  \/ AdvanceClockTo(MaxSchedule)
  \/ \E p \in Procs, at \in ScheduleTimes, req \in CreateRequests :
       CreateScheduledTask(p, at, req)
  \/ \E k \in Ticks : TickStart(k)
  \/ \E k \in Ticks : TickVerify(k)
  \/ \E k \in Ticks : TickStuckQuery(k)
  \/ \E k \in Ticks : TickSessionsQuery(k)
  \/ \E k \in Ticks : ExecFindSession(k)
  \/ \E k \in Ticks, ok \in BOOLEAN : ExecMarkStarted(k, ok)
  \/ \E k \in Ticks : ExecFail(k)

\* The scheduler with standalone tasks only and ticks that overlap, until the
\* tasks are due (no started task is old enough for stuck recovery by then).
OverlapSpec == Init /\ [][OverlapNext]_vars

HoldNext ==
  \/ Connect
  \/ Disconnect
  \/ AdvanceClockTo(MaxHold)
  \/ \E p \in Procs, at \in HoldTimes : PostStartScheduled(p, at)
  \/ \E p \in Procs : SStartPageResponse(p)
  \/ \E p \in Procs : SStartPageTimeout(p)
  \/ \E p \in Procs, r \in PlannerResults : SStartPlannerReturn(p, r)
  \/ \E p \in Procs : SStartCreateTask(p)
  \/ \E p \in Procs : SStartHistRead(p)
  \/ \E p \in Procs : SStartHistWrite(p)
  \/ \E p \in Procs, at \in HoldTimes, req \in CreateRequests :
       CreateScheduledTask(p, at, req)
  \/ \E k \in Ticks : TickStartAlone(k)
  \/ \E k \in Ticks : TickVerify(k)
  \/ \E k \in Ticks : TickStuckQuery(k)
  \/ \E k \in Ticks : TickSessionsQuery(k)
  \/ \E k \in Ticks : TickSessionGetTask(k)
  \/ \E k \in Ticks : ExecFindSession(k)
  \/ \E k \in Ticks, ok \in BOOLEAN : ExecMarkStarted(k, ok)
  \/ \E q \in Procs : SchedPageResponse(q)
  \/ \E q \in Procs : SchedPageTimeout(q)
  \/ \E k \in Ticks : ExecReturn(k)
  \/ \E k \in Ticks : ExecFail(k)
  \/ \E p \in Procs : CtsGetSession(p)
  \/ \E p \in Procs : CtsHistRead1(p)
  \/ \E p \in Procs : CtsHistWrite1(p)
  \/ \E p \in Procs : CtsCallPlanner(p)
  \/ \E p \in Procs, r \in PlannerResults : CtsPlannerReturn(p, r)
  \/ \E p \in Procs : CtsComplete(p)
  \/ \E p \in Procs : CtsCreateTask(p)
  \/ \E p \in Procs : CtsHistRead2(p)
  \/ \E p \in Procs, ok \in BOOLEAN : CtsHistWrite2(p, ok)

\* The scheduler with requests that ask for different due times, until the
\* last of them is due.
HoldSpec == Init /\ [][HoldNext]_vars

----
\* generateTask (the planner call with its retry loop)

MAX_RETRIES == 5

MaxPlanning == 1

\* What model.generateContent can do: the call fails (the oracle is
\* unreachable or rejects the credentials), or it answers with a text that
\* holds no JSON object, one that JSON.parse rejects, or an object with or
\* without type, params and isComplete ("scroll" is a type the executor does
\* not know).
OracleResponses ==
  {[call |-> "fails", json |-> "none", type |-> "none", params |-> FALSE,
    isComplete |-> FALSE]}
  \cup {[call |-> "answers", json |-> j, type |-> "none", params |-> FALSE,
         isComplete |-> FALSE] : j \in {"none", "unparseable"}}
  \cup {[call |-> "answers", json |-> "object", type |-> ty, params |-> pa,
         isComplete |-> c] :
          ty \in {"none", "scroll", "click", "custom"}, pa \in BOOLEAN, c \in BOOLEAN}

validTypes == {"navigate", "click", "fill", "extract", "wait", "custom"}

\* The body of the loop's try block: the error it throws for response r, or
\* "none" when r is accepted as taskData.
AttemptError(r) ==
  IF r.call = "fails" THEN "call failed"
  ELSE IF r.json = "none" THEN "No JSON found in Gemini response"
  ELSE IF r.json = "unparseable" THEN "Invalid JSON format"
  ELSE IF r.type = "none" \/ ~r.params THEN "Invalid task structure"
  ELSE IF r.type \notin validTypes THEN "Invalid task type"
  ELSE "none"

\* The kind of answer r is: the call failed, or it returned an answer that is
\* malformed (no JSON, unparseable JSON, type or params missing, a type that is
\* not a task type) or valid.
ResponseClass(r) ==
  IF r.call = "fails" THEN "failed"
  ELSE IF \/ r.json # "object"
          \/ r.type = "none"
          \/ ~r.params
          \/ r.type \notin validTypes THEN "malformed"
  ELSE "valid"

\* The final attempt is one short of MAX_RETRIES.
RetriesExhaustedEarly(attempt) == attempt >= MAX_RETRIES - 1

\* There is one attempt more than MAX_RETRIES.
RetriesExhaustedLate(attempt) == attempt >= MAX_RETRIES + 1

\* if (attempt >= MAX_RETRIES) throw
RetriesExhausted(attempt) == attempt >= MAX_RETRIES

\* The handler states that are awaiting generateTask.
PlanningPcs == {"start_planning", "cts_planning", "sstart_planning"}

\* generateTask is entered: without GEMINI_API_KEY it throws at once, else the
\* loop starts its first attempt and calls model.generateContent.  At most
\* MaxPlanning calls are in progress at a time: a call touches nothing but its
\* own locals, so a call that starts later behaves as one that started at once.
GenCall(p) ==
  /\ procs[p].pc \in PlanningPcs
  /\ gen[p].pc = "idle"
  /\ Cardinality({q \in Procs : gen[q].pc # "idle"}) < MaxPlanning
  /\ gen' = [gen EXCEPT ![p] =
       IF GEMINI_API_KEY
         THEN [@ EXCEPT !.pc = "calling", !.attempt = 1, !.calls = 1]
         ELSE [@ EXCEPT !.pc = "threw", !.lastError = "not configured"]]
  /\ UNCHANGED <<dbVars, chanVars, activeAISessions, procs, schedVars, GEMINI_API_KEY, truncVars, extVars>>

\* model.generateContent settles with r.  An accepted answer ends the loop and
\* generateTask returns; any error (of the call or of the checks on the
\* answer) is caught by the loop: at the last attempt it is thrown on, else
\* the loop waits 1000 * attempt milliseconds.
GenAnswer(p, r) ==
  /\ gen[p].pc = "calling"
  /\ LET g == gen[p]
         e == AttemptError(r)
         h == [g EXCEPT !.answers = Append(@, ResponseClass(r))]
     IN  gen' = [gen EXCEPT ![p] =
           IF e = "none"
             THEN [h EXCEPT !.pc = "returned", !.isComplete = r.isComplete]
           ELSE IF RetriesExhausted(g.attempt)
             THEN [h EXCEPT !.pc = "threw", !.lastError = e]
           ELSE [h EXCEPT !.pc = "backoff", !.lastError = e,
                          !.waits = Append(@, 1000 * g.attempt)]]
  /\ UNCHANGED <<dbVars, chanVars, activeAISessions, procs, schedVars, GEMINI_API_KEY, truncVars, extVars>>

\* The backoff timer fires and the loop tests its condition: the next attempt
\* calls model.generateContent again, or the loop is left without taskData and
\* generateTask throws.
GenBackoff(p) ==
  /\ gen[p].pc = "backoff"
  /\ gen' = [gen EXCEPT ![p] =
       IF @.attempt < MAX_RETRIES
         THEN [@ EXCEPT !.pc = "calling", !.attempt = @ + 1, !.calls = @ + 1]
         ELSE [@ EXCEPT !.pc = "threw"]]
  /\ UNCHANGED <<dbVars, chanVars, activeAISessions, procs, schedVars, GEMINI_API_KEY, truncVars, extVars>>

\* A generateTask whose failure reads as "the goal is complete".
GenResultCompleteOnThrow(g) ==
  IF g.pc = "threw" \/ g.isComplete THEN "complete" ELSE "task"

\* What the caller of generateTask gets.
GenResult(g) ==
  IF g.pc = "threw" THEN "error"
  ELSE IF g.isComplete THEN "complete"
  ELSE "task"

GenEnded(p) == gen[p].pc \in {"returned", "threw"}

\* The server may or may not have been started with GEMINI_API_KEY.
PlannerInit == InitStore /\ NoPageYet /\ ChannelIdle /\ GEMINI_API_KEY \in BOOLEAN

PlannerNext ==
  \/ Connect
  \/ Disconnect
  \/ \E p \in Procs : PostStart(p)
  \/ \E p \in Procs : PageHtmlResponse(p)
  \/ \E p \in Procs : PageHtmlTimeout(p)
  \/ \E p \in Procs : GenCall(p)
  \/ \E p \in Procs, r \in OracleResponses : GenAnswer(p, r)
  \/ \E p \in Procs : GenBackoff(p)
  \/ \E p \in Procs : GenEnded(p) /\ StartPlannerReturn(p, GenResult(gen[p]))
  \/ \E p \in Procs : StartCreateTask(p)
  \/ \E p \in Procs : StartHistRead(p)
  \/ \E p \in Procs, ok \in BOOLEAN : StartHistWrite(p, ok)
  \/ \E p \in Procs, t \in Procs, page \in BOOLEAN, err \in BOOLEAN :
       TaskResult(p, t, page, err)
  \/ \E p \in Procs : WsGetSession(p)
  \/ \E p \in Procs : WsUpdateTask(p)
  \/ \E p \in Procs : CtsGetSession(p)
  \/ \E p \in Procs : CtsHistRead1(p)
  \/ \E p \in Procs : CtsHistWrite1(p)
  \/ \E p \in Procs : CtsCallPlanner(p)
  \/ \E p \in Procs : GenEnded(p) /\ CtsPlannerReturn(p, GenResult(gen[p]))
  \/ \E p \in Procs : CtsComplete(p)
  \/ \E p \in Procs : CtsCreateTask(p)
  \/ \E p \in Procs : CtsHistRead2(p)
  \/ \E p \in Procs, ok \in BOOLEAN : CtsHistWrite2(p, ok)

\* The immediate start and the continuations after task results, with
\* generateTask run attempt by attempt against the oracle's answers.
PlannerSpec == PlannerInit /\ [][PlannerNext]_vars

----
\* Notions the properties are stated with.

\* The outcome (result or error) of task t is in the history of session s.
Resolved(s, t) ==
  \E i \in DOMAIN history[s] : history[s][i].task = t /\ history[s][i].outcome # "none"

\* The actions of session s that were sent to the executor and whose outcome
\* is not in the session's history.
Unresolved(s) == {t \in sentTasks : TaskSession(t) = s /\ ~Resolved(s, t)}

\* What continueTaskSequence does to the store, the planner and the executor.
CtsEffects == {"append1", "plan", "create", "append2", "send"}

----
\* C1: once a session's status is completed or cancelled, no step changes it.
TerminalIsAbsorbing ==
  [][\A s \in Procs : status[s] \in Terminal => status'[s] = status[s]]_vars

\* C2: no task is sent to the executor for a session whose stored status is
\* cancelled at the moment of the send.
NoDispatchAfterStop ==
  [][\A t \in sentTasks' \ sentTasks : status[TaskSession(t)] # "cancelled"]_vars

\* C3: a planning turn whose planner answer has isComplete = true creates no
\* task and sends none, and ends with the session completed.
CompleteTurnHasNoAction ==
  \A p \in Procs :
    procs[p].isComplete =>
      /\ taskStatus[p] = "none"
      /\ p \notin sentTasks
      /\ procs[p].pc = "done" => status[procs[p].session] = "completed"

\* C4: a session never has two actions that were dispatched and whose outcome
\* is not yet in its history.
StrictlySequential ==
  \A s \in Procs : Cardinality(Unresolved(s)) <= 1

\* C5: two different sessions of the executor never both have a dispatched,
\* unresolved action.
OneSessionPerExecutor ==
  \A s1, s2 \in Procs :
    (Unresolved(s1) # {} /\ Unresolved(s2) # {}) => s1 = s2

\* C6: at most one snapshot request of the executor is unanswered at any time.
OneSnapshotInFlight ==
  Cardinality(pendingPageHtmlRequests) <= 1

\* C7: every step leaves each session's stored history a prefix of the new one.
HistoryAppendOnly ==
  [][\A s \in Procs : IsPrefix(history[s], history'[s])]_vars

\* C8: every entry whose append has returned is in the stored history.
NoLostAppend ==
  \A p \in Procs :
    /\ "append1" \in procs[p].did => OutcomeEntry(p) \in Range(history[procs[p].session])
    /\ "append2" \in procs[p].did => PlanEntry(p, p) \in Range(history[procs[p].session])

\* C9: a continuation that reads a completed or cancelled status on entry is
\* rejected and stays rejected, having appended nothing, not called the planner,
\* created no task and sent nothing; a WebSocket continuation skipped for the
\* same reason has done nothing at all.
RejectedStepHasNoEffect ==
  \A p \in Procs :
    /\ procs[p].sessStatus \in Terminal =>
         /\ procs[p].pc = "rejected"
         /\ procs[p].did \cap CtsEffects = {}
         /\ taskStatus[p] = "none"
         /\ p \notin sentTasks
    /\ procs[p].pc = "skipped" =>
         /\ procs[p].did = {}
         /\ taskStatus[p] = "none"
         /\ p \notin sentTasks

\* C9 witness: a continuation found its session terminal on entry and was rejected.
RejectedStepReached ==
  \E p \in Procs :
    /\ procs[p].pc = "rejected"
    /\ procs[p].sessStatus \in Terminal

\* C10: when the handling of a task_result that carried a page snapshot and
\* arrived after its session had been cancelled is over, the outcome is in the
\* session's history and the task row is completed or failed.
LateOutcomeRecorded ==
  \A p \in Procs :
    (/\ procs[p].kind = "ws"
     /\ procs[p].late
     /\ procs[p].page
     /\ Finished(p))
    => /\ taskStatus[procs[p].task] \in {"completed", "failed"}
       /\ Resolved(TaskSession(procs[p].task), procs[p].task)

\* C11: completing or cancelling a session whose stored status is already
\* completed or cancelled leaves that status and the session's history as they
\* are: the store of POST /stop (updateAISession cancelled) and the store of a
\* completing continuation (updateAISession completed) change nothing then.
CompleteCancelIdempotent ==
  [][\A p \in Procs :
       LET s == IF procs[p].pc = "stop_cancel" THEN Min(procs[p].todo)
                ELSE procs[p].session
       IN  (/\ \/ procs[p].pc = "stop_cancel" /\ procs'[p].pc = "stop_delete"
               \/ procs[p].pc = "cts_complete" /\ procs'[p].pc = "done"
            /\ status[s] \in Terminal)
           => /\ status'[s] = status[s]
              /\ history'[s] = history[s]]_vars

\* C12: while the clock is before the due time of a deferred session, no task
\* of the session has been sent to the executor, the scheduler has requested no
\* snapshot and entered no continuation for it, and its stored first task, if
\* stored yet, is pending with the requested time, never started and never
\* touched by the scheduler.
NoActionBeforeDue ==
  \A s \in Procs :
    (sessScheduledAt[s] # NoTime /\ now < sessScheduledAt[s]) =>
      /\ \A t \in sentTasks : TaskSession(t) # s
      /\ \A q \in Procs : procs[q].kind = "sched" => procs[q].session # s
      /\ taskStatus[s] \in {"none", "pending"}
      /\ taskStartedAt[s] = NoTime
      /\ schedLog[s] = BlankLog
      /\ taskStatus[s] = "pending" => taskScheduledAt[s] = sessScheduledAt[s]

\* C12 witness: a deferred session with its first task stored is not due yet
\* while a tick that has executed another, due task goes on to the sessions.
HeldWhileSchedulerWorks ==
  \E s \in Procs, t \in Procs, k \in Ticks :
    /\ sessScheduledAt[s] # NoTime
    /\ now < sessScheduledAt[s]
    /\ procs[s].pc = "done"
    /\ taskStatus[s] = "pending"
    /\ schedLog[t].started > 0
    /\ ticks[k].pc = "sessions_query"

\* The continuations the scheduler has entered for session s with the
\* session's stored first task (the task has the id of the session: both were
\* created by the same POST /start).
ScheduledEntries(s) ==
  {q \in Procs : /\ procs[q].kind = "sched"
                 /\ procs[q].session = s
                 /\ procs[q].task = s
                 /\ procs[q].page}

\* C13: over all ticks, the scheduler enters continueTaskSequence at most once
\* for a deferred session and its stored first task.
EnteredAtMostOnce ==
  \A s \in Procs : Cardinality(ScheduledEntries(s)) <= 1

\* C14: a due task is dispatched at most once per time it is pending: the
\* scheduler sends it to the executor once, and again only after a stuck reset
\* made it pending again, however the ticks overlap.
DispatchedOncePerPending ==
  \A t \in Procs : schedLog[t].sends <= schedLog[t].resets + 1

\* A task the stuck check is meant for: started more than StuckAfter minutes
\* ago.
Stuck(t) ==
  /\ taskStatus[t] = "started"
  /\ taskStartedAt[t] < now - StuckAfter

\* C15: when a tick has passed its task phase (it moves on to the due
\* sessions), no task is left started for more than five minutes: the tick has
\* reset every one of them to pending.
RecoveryResetsEveryStuck ==
  [][\A k \in Ticks :
       (ticks[k].pc # "sessions_query" /\ ticks'[k].pc = "sessions_query")
         => \A t \in Procs : ~Stuck(t)']_vars

\* C16: over the whole life of a task the scheduler resets it from started
\* back to pending at most once.
ResetAtMostOnce ==
  \A t \in Procs : schedLog[t].resets <= 1

\* C17: when executeScheduledTask acts on a due standalone task (created by
\* POST /api/tasks/create for an extension), it sends the task if the
\* extension is connected (or the send itself fails and closes the case as a
\* lost connection); if the extension is not connected it sends nothing and
\* goes on to mark the task failed.
StandaloneSentOrFailed ==
  [][\A k \in Ticks :
       LET t == ticks[k].task
       IN  (/\ ticks[k].pc = "exec_start"
            /\ ticks'[k].pc # "exec_start"
            /\ procs[t].kind = "create"
            /\ TaskExtensionId(t))
           => IF extensionConnections
                THEN \/ /\ t \in sentTasks'
                        /\ schedLog'[t].sends = schedLog[t].sends + 1
                     \/ /\ ~extensionConnections'
                        /\ ticks'[k].pc = "exec_fail"
                ELSE /\ sentTasks' = sentTasks
                     /\ sentRequests' = sentRequests
                     /\ ticks'[k].pc = "exec_fail"]_vars

\* Every answer of the sequence was malformed.
AllMalformed(a) == \A i \in DOMAIN a : a[i] = "malformed"

\* C18: when the oracle has answered a call of generateTask with k malformed
\* answers (k from 0 to 4) and then a valid one, generateTask has returned on
\* attempt k+1 after exactly k+1 upstream calls; and after 1 to 4 malformed
\* answers and nothing else the call has not given up: it is waiting to retry
\* or has made its next upstream call.
RetryUntilValid ==
  \A p \in Procs :
    LET g == gen[p]
        a == g.answers
        n == Len(a)
    IN  /\ (/\ n \in 1..MAX_RETRIES
            /\ a[n] = "valid"
            /\ AllMalformed(SubSeq(a, 1, n - 1)))
           => /\ g.pc = "returned"
              /\ g.attempt = n
              /\ g.calls = n
        /\ (n \in 1..(MAX_RETRIES - 1) /\ AllMalformed(a))
           => \/ g.pc = "backoff" /\ g.calls = n
              \/ g.pc = "calling" /\ g.calls = n + 1

\* C18 witness: a call has returned on its fifth attempt, after four malformed
\* answers and five upstream calls.
ValidOnFifthAttempt ==
  \E p \in Procs :
    /\ gen[p].pc = "returned"
    /\ gen[p].calls = MAX_RETRIES
    /\ Len(gen[p].answers) = MAX_RETRIES
    /\ AllMalformed(SubSeq(gen[p].answers, 1, MAX_RETRIES - 1))
    /\ gen[p].answers[MAX_RETRIES] = "valid"

\* C19: when the oracle has answered a call of generateTask with five
\* malformed answers, generateTask has thrown after exactly five upstream
\* calls; the handler that called it then fails without creating a task or
\* sending anything, and a failed handler does nothing more.
ExhaustionFailsStep ==
  [][\A p \in Procs :
       /\ (Len(gen[p].answers) = MAX_RETRIES /\ AllMalformed(gen[p].answers))
          => /\ gen[p].pc = "threw"
             /\ gen[p].calls = MAX_RETRIES
             /\ procs'[p] # procs[p]
                  => /\ procs'[p].pc = "failed"
                     /\ "create" \notin procs'[p].did
                     /\ taskStatus' = taskStatus
                     /\ taskStatus[p] = "none"
                     /\ history' = history
                     /\ sentTasks' = sentTasks
                     /\ sentRequests' = sentRequests
       /\ procs[p].pc = "failed" => procs'[p] = procs[p]]_vars

\* C19 witness: the continuation after a task result is waiting for
\* generateTask, which has thrown after five malformed answers.
ContinuationPlannerExhausted ==
  \E p \in Procs :
    /\ procs[p].kind = "ws"
    /\ procs[p].pc = "cts_planning"
    /\ gen[p].pc = "threw"
    /\ gen[p].calls = MAX_RETRIES
    /\ Len(gen[p].answers) = MAX_RETRIES
    /\ AllMalformed(gen[p].answers)

\* C20: an upstream call that failed is the last upstream call of its
\* generateTask: the call makes no further upstream call and does not return
\* a task.
NoRetryAfterCallFailure ==
  \A p \in Procs :
    \A i \in DOMAIN gen[p].answers :
      gen[p].answers[i] = "failed"
        => /\ gen[p].calls = i
           /\ gen[p].pc # "returned"

\* C21: when the task planned by an invocation cannot be delivered (no open
\* socket, or the send fails), the session's history holds an entry for that
\* task with an error outcome once the invocation has failed.
UndeliveredStepRecorded ==
  [][\A p \in Procs :
       (/\ procs[p].pc \in {"start_hist_write", "cts_hist_write2"}
        /\ procs'[p].pc = "failed")
         => \E i \in DOMAIN history'[procs[p].session] :
              /\ history'[procs[p].session][i].task = p
              /\ history'[procs[p].session][i].outcome = "error"]_vars

\* The handler states that are awaiting requestPageHtmlFromExtension.
SnapshotWaitPcs == {"start_wait_page", "sstart_wait_page", "sched_wait_page"}

\* The snapshot request of invocation p (a deferred start or a scheduler
\* continuation) is over and brought no page.
SnapshotFailed(p) ==
  /\ procs[p].kind \in {"sstart", "sched"}
  /\ procs[p].pc \notin SnapshotWaitPcs
  /\ ~procs[p].page

FailedStepLeavesSessionActive ==
  [][\A p \in Procs :
       /\ (procs[p].pc # "failed" /\ procs'[p].pc = "failed")
          => /\ \A s \in Procs : status'[s] \in Terminal => status'[s] = status[s]
             /\ sentTasks' = sentTasks
             /\ sentRequests' = sentRequests
       /\ (gen[p].pc = "threw" /\ procs'[p] # procs[p])
          => procs'[p].pc = "failed"
       /\ procs[p].pc = "failed" => procs'[p] = procs[p]]_vars

\* C23 witness: a continuation after a task result has failed after its
\* planner call and before createTask, and its session is still active.
ContinuationFailedSessionActive ==
  \E p \in Procs :
    /\ procs[p].kind = "ws"
    /\ procs[p].pc = "failed"
    /\ "plan" \in procs[p].did
    /\ "create" \notin procs[p].did
    /\ status[procs[p].session] = "active"

\* C24: a task_result that arrives for the task an active session is tracking
\* as in flight is taken up by a continuation (which appends the outcome to
\* the history); it is never ignored on arrival, with or without a page
\* snapshot.
TrackedOutcomeNotIgnored ==
  [][\A p \in Procs :
       (/\ procs[p].pc = "idle"
        /\ procs'[p].kind = "ws"
        /\ \E s \in TrackedBy(procs'[p].task) : status[s] = "active")
         => procs'[p].pc # "ignored"]_vars

\* The tasks of session s that were sent to the executor.
SentFor(s) == {t \in sentTasks : TaskSession(t) = s}

\* C25: a completed session has exactly one history entry per action that was
\* sent to the executor for it.
OneEntryPerAction ==
  \A s \in Procs :
    status[s] = "completed" => Len(history[s]) = Cardinality(SentFor(s))

\* C26: the loop has a cap on the actions it dispatches for a session: a
\* session for which as many actions were sent as there are handler
\* invocations has been stopped (it is not active any more, or no action of it
\* is tracked as in flight whose result would step it again).
LoopStopsWithinBound ==
  \A s \in Procs :
    Cardinality(SentFor(s)) >= MaxProcs
      => \/ status[s] # "active"
         \/ activeAISessions[s] = NoId

(***************************************************************************)
(* The page snapshot and the planner context.                              *)
(*                                                                         *)
(* The executor describes the page of its tab (executeExtractPageHtml) and *)
(* generateTask turns that description into the text given to the planner *)
(* (truncatePageContext).  Texts are kept as strings where the code reads  *)
(* them and as lengths where it only measures them; the returned context   *)
(* is kept by its length, the elements it lists (positions in the          *)
(* snapshot) and whether it carries the truncation notice.  A snapshot of  *)
(* executeExtractPageHtml always has interactiveElements, so the branches  *)
(* of truncatePageContext for raw html and for no page are not taken.      *)
(***************************************************************************)

\* Bounds.  ElementCap stands for the executor's limit of 200 elements per
\* snapshot, scaled to pages of at most MaxElements elements.
MaxElements == 4

ElementCap == 3

\* The visible interactive elements a page is made of: el.type is the DOM
\* property the executor reads for INPUT elements.
DomElements ==
  {[tagName |-> "button", type |-> "submit", selector |-> "#go", label |-> "Search", value |-> ""],
   [tagName |-> "a", type |-> "", selector |-> "#home", label |-> "Home", value |-> ""],
   [tagName |-> "input", type |-> "email", selector |-> "#mail", label |-> "Email", value |-> ""],
   [tagName |-> "input", type |-> "text", selector |-> "#q", label |-> "", value |-> "tla"],
   [tagName |-> "a", type |-> "", selector |-> "a.more", label |-> "", value |-> ""]}

Documents ==
  [url : {"https://example.com"},
   title : {"Example"},
   description : {"", "An example page"},
   headings : {<<>>, <<[level |-> 1, text |-> "Example Domain"]>>},
   interactiveElements : UNION {[1..n -> DomElements] : n \in 0..MaxElements}]

\* Character budgets around the sizes of the contexts of these pages.
Budgets == {200, 240, 280, 320, 360, 400}

getElementType(el) ==
  IF el.tagName = "input" THEN (IF el.type # "" THEN el.type ELSE "text")
  ELSE IF el.tagName = "button" THEN "button"
  ELSE IF el.tagName = "a" THEN "link"
  ELSE "interactive"

\* The element objects of the snapshot, in document order.
SnapshotElements(els) ==
  [i \in 1..Len(els) |->
     [tagName |-> els[i].tagName, type |-> getElementType(els[i]),
      selector |-> els[i].selector, label |-> els[i].label, value |-> els[i].value]]

\* interactiveElements.filter(el => el.visible).slice(0, 200)
ExecuteExtractPageHtml ==
  /\ document # NoPage
  /\ pageData = NoPage
  /\ pageData' =
       [url |-> document.url, title |-> document.title,
        description |-> document.description, headings |-> document.headings,
        interactiveElements |->
          SubSeq(SnapshotElements(document.interactiveElements), 1,
                 Min({Len(document.interactiveElements), ElementCap}))]
  /\ UNCHANGED <<dbVars, chanVars, activeAISessions, procs, schedVars,
                 GEMINI_API_KEY, gen, document, maxChars, pageContext, extVars>>

\* The number of characters of `${n}`.
Digits(n) == IF n < 10 THEN 1 ELSE IF n < 100 THEN 2 ELSE 3

\* (a.label ? 2 : 0) + (a.type === 'button' || a.type === 'input' ? 1 : 0)
Priority(el) ==
  (IF el.label # "" THEN 2 ELSE 0) + (IF el.type \in {"button", "input"} THEN 1 ELSE 0)

\* [...interactiveElements].sort((a, b) => bPriority - aPriority), a stable
\* sort: the positions of the snapshot by descending priority, elements of
\* equal priority in document order.
sortedElements(els) ==
  LET Before(i, j) ==
        \/ Priority(els[i]) > Priority(els[j])
        \/ Priority(els[i]) = Priority(els[j]) /\ i < j
  IN [k \in 1..Len(els) |->
        CHOOSE i \in 1..Len(els) :
          Cardinality({j \in 1..Len(els) : Before(j, i)}) = k - 1]

\* `Headings:\n${headings.map(h => `  ${'#'.repeat(h.level)} ${h.text}`).join('\n')}\n`
RECURSIVE HeadingLines(_)
HeadingLines(hs) ==
  IF hs = <<>> THEN 0
  ELSE Len("  ") + Head(hs).level + Len(" ") + Len(Head(hs).text)
       + (IF Len(hs) > 1 THEN Len("\n") ELSE 0) + HeadingLines(Tail(hs))

headingsText(hs) == Len("Headings:\n") + HeadingLines(hs) + Len("\n")

\* The metadata the context starts with.
Metadata(pd) ==
  Len("Current page information:\nURL: ") + Len(pd.url)
  + Len("\nTitle: ") + Len(pd.title) + Len("\n")
  + (IF pd.description # ""
     THEN Len("Description: ") + Len(pd.description) + Len("\n") ELSE 0)

elementsHeader(pd) ==
  Len("Interactive elements (") + Digits(Len(pd.interactiveElements))
  + Len(" total, showing first ")

\* The line of the element listed as number n.
elementText(n, el) ==
  Digits(n) + Len(". ") + Len(el.type) + Len(" - Selector: \"") + Len(el.selector)
  + Len("\"")
  + (IF el.label # "" THEN Len(" - Label: \"") + Len(el.label) + Len("\"") ELSE 0)
  + (IF el.value # "" THEN Len(" - Value: \"") + Len(el.value) + Len("\"") ELSE 0)
  + Len("\n")

\* The loop over sortedElements: an element is added while the context, the
\* header, the list and 50 characters for the closing text stay within
\* maxChars; the first element that does not fit ends the loop.
RECURSIVE ElementsList(_, _, _, _, _)
ElementsList(pd, sorted, base, budget, acc) ==
  IF acc.elementCount = Len(sorted) THEN acc
  ELSE LET text == elementText(acc.elementCount + 1,
                               pd.interactiveElements[sorted[acc.elementCount + 1]])
           totalLength == base + elementsHeader(pd) + acc.length + text + 50
       IN IF totalLength > budget
          THEN [acc EXCEPT !.truncated = TRUE]
          ELSE ElementsList(pd, sorted, base, budget,
                            [elementCount |-> acc.elementCount + 1,
                             length |-> acc.length + text,
                             truncated |-> FALSE])

truncatePageContext(pd, budget) ==
  LET withHeadings ==
        /\ Len(pd.headings) > 0
        /\ Metadata(pd) + headingsText(pd.headings) <= budget
      base == Metadata(pd) + (IF withHeadings THEN headingsText(pd.headings) ELSE 0)
      sorted == sortedElements(pd.interactiveElements)
      list == ElementsList(pd, sorted, base, budget,
                           [elementCount |-> 0, length |-> 0, truncated |-> FALSE])
      shown == Digits(list.elementCount)
               + (IF list.truncated THEN Len(" due to token limit") ELSE 0)
               + Len("):\n")
      note == IF list.truncated
              THEN Len("\n[Note: Page has ") + Digits(Len(pd.interactiveElements))
                   + Len(" total interactive elements, but only showing first ")
                   + Digits(list.elementCount) + Len(" due to token limit]")
              ELSE 0
  IN [length |-> base + elementsHeader(pd) + shown + list.length + note,
      listed |-> SubSeq(sorted, 1, list.elementCount),
      truncated |-> list.truncated]

\* generateTask builds the page context of its prompt.
TruncatePageContext ==
  /\ pageData # NoPage
  /\ pageContext = NoContext
  /\ pageContext' = truncatePageContext(pageData, maxChars)
  /\ UNCHANGED <<dbVars, chanVars, activeAISessions, procs, schedVars,
                 GEMINI_API_KEY, gen, document, pageData, maxChars, extVars>>

TruncInit ==
  /\ InitStore
  /\ ChannelIdle
  /\ GEMINI_API_KEY = TRUE
  /\ document \in Documents
  /\ pageData = NoPage
  /\ maxChars \in Budgets
  /\ pageContext = NoContext

TruncNext ==
  \/ ExecuteExtractPageHtml
  \/ TruncatePageContext

TruncSpec == TruncInit /\ [][TruncNext]_vars

\* C27: in the context built from a snapshot, no listed element has a lower
\* priority (a label first, then being a button or an input) than an omitted
\* element of the snapshot, and the context carries the truncation notice
\* exactly when an element of the snapshot is omitted.
PriorityTruncation ==
  LET Listed == {pageContext.listed[k] : k \in DOMAIN pageContext.listed}
      Omitted == (DOMAIN pageData.interactiveElements) \ Listed
      IsButtonOrInput(el) == el.tagName \in {"button", "input"} \/ el.type = "button"
      Outranks(a, b) ==
        \/ a.label # "" /\ b.label = ""
        \/ (a.label # "") = (b.label # "") /\ IsButtonOrInput(a) /\ ~IsButtonOrInput(b)
  IN pageContext # NoContext =>
       /\ \A i \in Listed : \A j \in Omitted :
            ~Outranks(pageData.interactiveElements[j], pageData.interactiveElements[i])
       /\ pageContext.truncated <=> Omitted # {}

\* C28: the context returned by truncatePageContext, header and truncation
\* notice included, is never longer than the character budget.
ContextWithinBudget ==
  pageContext # NoContext => pageContext.length <= maxChars

\* C29: when the context lists fewer interactive elements than the page has,
\* because of the executor's cap or of the character budget, the context says
\* that the list is truncated.
OmissionFlagged ==
  (pageContext # NoContext /\ Len(pageContext.listed) < Len(document.interactiveElements))
    => pageContext.truncated

----
\* Standalone tasks and their results

\* POST /api/tasks/create without scheduledAt: createTask stores the task as
\* pending; with an extensionId, sendTaskToExtension sends it at once if the
\* executor's socket is open (`ok`: ws.send returns), and the request is
\* answered with success either way.
CreateTask(p, req, ok) ==
  /\ Arrives(p)
  /\ taskStatus' = [taskStatus EXCEPT ![p] = "pending"]
  /\ taskUser' = [taskUser EXCEPT ![p] = req.user]
  /\ taskExtension' = [taskExtension EXCEPT ![p] = req.ext]
  /\ procs' = [procs EXCEPT ![p] =
       [Blank EXCEPT !.kind = "create", !.pc = "done", !.did = {"create"}]]
  /\ IF req.ext /\ extensionConnections
       THEN /\ sentTasks' = IF ok THEN sentTasks \cup {p} ELSE sentTasks
            /\ extensionConnections' = ok
       ELSE /\ ok
            /\ UNCHANGED <<sentTasks, extensionConnections>>
  /\ UNCHANGED <<status, history, pendingPageHtmlRequests, sentRequests,
                 activeAISessions, now, taskScheduledAt, taskStartedAt,
                 sessCols, ticks, schedLog, plannerVars, extVars>>

ResultNext ==
  \/ Connect
  \/ Disconnect
  \/ AdvanceClockTo(MaxSchedule)
  \/ \E p \in Procs, req \in CreateRequests, ok \in BOOLEAN : CreateTask(p, req, ok)
  \/ \E p \in Procs, at \in ScheduleTimes, req \in CreateRequests :
       CreateScheduledTask(p, at, req)
  \/ \E k \in Ticks : TickStartAlone(k)
  \/ \E k \in Ticks : TickVerify(k)
  \/ \E k \in Ticks : TickStuckQuery(k)
  \/ \E k \in Ticks : TickSessionsQuery(k)
  \/ \E k \in Ticks : ExecFindSession(k)
  \/ \E k \in Ticks, ok \in BOOLEAN : ExecMarkStarted(k, ok)
  \/ \E k \in Ticks : ExecFail(k)
  \/ \E p \in Procs, t \in Procs, page \in BOOLEAN, err \in BOOLEAN :
       TaskResult(p, t, page, err)

\* Standalone tasks, sent at once or by the scheduler when due, and the
\* task_result messages of the executor for them.
ResultSpec == Init /\ [][ResultNext]_vars

\* C30: when the handling of a task_result for a task that was sent to the
\* executor has ended, the stored status of that task is completed or failed,
\* whoever created the task.
ResultUpdatesTaskStatus ==
  \A p \in Procs :
    (procs[p].kind = "ws" /\ procs[p].pc \in {"ignored", "skipped"})
      => taskStatus[procs[p].task] \in {"completed", "failed"}

\* C31: a task_result with a snapshot for the tracked task of an active session
\* starts a continuation by itself; the continuation appends the outcome to the
\* session's history, ends normally only by completing the session (no task
\* sent) or by sending exactly its own new task and tracking it for the
\* session, and fails only at the planner call or when the send finds no open
\* socket.
PushDrivenAdvance ==
  [][\A p \in Procs :
       LET s == procs'[p].session IN
       /\ (/\ procs[p].pc = "idle"
           /\ procs'[p].kind = "ws"
           /\ procs'[p].page
           /\ \E x \in TrackedBy(procs'[p].task) : status[x] = "active")
            => procs'[p].pc = "ws_get" /\ status[s] = "active"
       /\ (procs[p].kind = "ws" /\ procs[p].pc = "cts_hist_write1" /\ procs'[p] # procs[p])
            => /\ history'[s] # <<>>
               /\ history'[s][Len(history'[s])] = OutcomeEntry(p)
       /\ (procs[p].kind = "ws" /\ procs[p].pc # "done" /\ procs'[p].pc = "done")
            => /\ "append1" \in procs[p].did
               /\ \/ /\ status'[s] = "completed"
                     /\ activeAISessions'[s] = NoId
                     /\ sentTasks' = sentTasks
                  \/ /\ p \notin sentTasks
                     /\ sentTasks' = sentTasks \cup {p}
                     /\ activeAISessions'[s] = p
                     /\ status' = status
       /\ (procs[p].kind = "ws" /\ procs[p].pc # "failed" /\ procs'[p].pc = "failed")
            => \/ procs[p].pc = "cts_planning"
               \/ procs[p].pc = "cts_hist_write2" /\ ~extensionConnections']_vars

PushedResultDispatchedNext ==
  \E p \in Procs :
    /\ procs[p].kind = "ws"
    /\ procs[p].pc = "done"
    /\ "send" \in procs[p].did
    /\ activeAISessions[procs[p].session] = p
    /\ \E i \in DOMAIN history[procs[p].session] :
         history[procs[p].session][i] = OutcomeEntry(p)

\* C34: the wait before the retry that follows failed attempt k of generateTask
\* is 1000 * 2^(k-1) milliseconds (1 s, 2 s, 4 s, 8 s).
BackoffIsExponential ==
  \A p \in Procs : \A k \in DOMAIN gen[p].waits :
    gen[p].waits[k] = 1000 * 2^(k - 1)

----
\* Deferred sessions that are cancelled before they are due

\* POST /api/ai/stop arrives before the due time of the deferred sessions (the
\* clock does not advance while a handler is running, so its cancels are
\* stored before that time too).
PostStopBeforeDue(p) ==
  /\ now < MaxSchedule
  /\ PostStop(p)

StopNext ==
  \/ Connect
  \/ Disconnect
  \/ AdvanceClockTo(MaxSchedule)
  \/ \E p \in Procs, at \in ScheduleTimes : PostStartScheduled(p, at)
  \/ \E p \in Procs : SStartPageResponse(p)
  \/ \E p \in Procs : SStartPageTimeout(p)
  \/ \E p \in Procs, r \in PlannerResults : SStartPlannerReturn(p, r)
  \/ \E p \in Procs : SStartCreateTask(p)
  \/ \E p \in Procs : SStartHistRead(p)
  \/ \E p \in Procs : SStartHistWrite(p)
  \/ \E p \in Procs : PostStopBeforeDue(p)
  \/ \E p \in Procs : StopCancel(p)
  \/ \E p \in Procs : StopDelete(p)
  \/ \E k \in Ticks : TickStartAlone(k)
  \/ \E k \in Ticks : TickVerify(k)
  \/ \E k \in Ticks : TickStuckQuery(k)
  \/ \E k \in Ticks : TickSessionsQuery(k)
  \/ \E k \in Ticks : TickSessionGetTask(k)
  \/ \E k \in Ticks : ExecFindSession(k)
  \/ \E k \in Ticks, ok \in BOOLEAN : ExecMarkStarted(k, ok)
  \/ \E q \in Procs : SchedPageResponse(q)
  \/ \E q \in Procs : SchedPageTimeout(q)
  \/ \E k \in Ticks : ExecReturn(k)
  \/ \E k \in Ticks : ExecFail(k)
  \/ \E p \in Procs : CtsGetSession(p)
  \/ \E p \in Procs : CtsHistRead1(p)
  \/ \E p \in Procs : CtsHistWrite1(p)
  \/ \E p \in Procs : CtsCallPlanner(p)
  \/ \E p \in Procs, r \in PlannerResults : CtsPlannerReturn(p, r)
  \/ \E p \in Procs : CtsComplete(p)
  \/ \E p \in Procs : CtsCreateTask(p)
  \/ \E p \in Procs : CtsHistRead2(p)
  \/ \E p \in Procs, ok \in BOOLEAN : CtsHistWrite2(p, ok)

\* Deferred sessions, POST /stop before they are due, and the scheduler.
StopSpec == Init /\ [][StopNext]_vars

\* C37: no step sends the stored first task of a deferred session that was
\* cancelled before its due time, neither through the session's continuation
\* nor as a standalone task.
CancelledFirstActionNotSent ==
  [][\A t \in Procs :
       (/\ t \in sentTasks' \ sentTasks
        /\ TaskSession(t) = t
        /\ sessScheduledAt[t] # NoTime)
         => status[TaskSession(t)] # "cancelled"]_vars

\* C38: a task_result whose task id is not the tracked task of any session in
\* activeAISessions is dropped on arrival: it appends nothing to a history,
\* starts no continuation (so no planner call) and sends nothing, and its
\* handler does nothing later either.
UntrackedResultIgnored ==
  [][\A p \in Procs :
       /\ (/\ procs[p].pc = "idle"
           /\ procs'[p].kind = "ws"
           /\ \A s \in Procs : activeAISessions[s] # procs'[p].task)
            => /\ procs'[p].pc = "ignored"
               /\ procs'[p].did = {}
               /\ UNCHANGED <<dbVars, chanVars, activeAISessions, gen>>
       /\ procs[p].pc = "ignored" => procs'[p] = procs[p]]_vars

UntrackedResultWithSnapshotSeen ==
  \E p \in Procs :
    /\ procs[p].kind = "ws"
    /\ procs[p].pc = "ignored"
    /\ procs[p].page
    /\ procs[p].task \in sentTasks
    /\ \A s \in Procs : activeAISessions[s] # procs[p].task

\* C36: a snapshot request that is sent is registered as pending; it is
\* settled (by its page_html answer or by its timer) only while it is pending
\* and the settling step removes its entry; an entry is removed by nothing
\* else; and a request that is no longer pending is never settled or
\* registered again.
SnapshotSettledOnce ==
  [][\A p \in Procs :
       LET waits == procs[p].pc \in SnapshotWaitPcs
           waits2 == procs'[p].pc \in SnapshotWaitPcs
       IN /\ p \in sentRequests' \ sentRequests
               => p \in pendingPageHtmlRequests' /\ waits2
          /\ (waits /\ ~waits2)
               => /\ p \in pendingPageHtmlRequests
                  /\ p \notin pendingPageHtmlRequests'
                  /\ procs'[p].pc \in {"start_planning", "failed"}
          /\ (p \in pendingPageHtmlRequests /\ p \notin pendingPageHtmlRequests')
               => waits /\ ~waits2
          /\ (p \in sentRequests /\ p \notin pendingPageHtmlRequests)
               => /\ p \notin pendingPageHtmlRequests'
                  /\ ~waits
                  /\ procs'[p].pc # "start_planning" \/ procs[p].pc = "start_planning"]_vars

ResolvedAndTimedOutRequests ==
  \E p, q \in Procs :
    /\ {p, q} \subseteq sentRequests
    /\ pendingPageHtmlRequests = {}
    /\ procs[p].pc = "failed" /\ procs[p].did = {}
    /\ "create" \in procs[q].did

(***************************************************************************)
(* The channel between the extension and the backend.                      *)
(*                                                                         *)
(* The extension's background service worker keeps one WebSocket to the    *)
(* backend (initWebSocket), reconnects with growing delays                 *)
(* (attemptReconnect), watches the backend's pings (startPingInterval) and *)
(* retries the messages it could not send (sendToBackend).  The backend    *)
(* registers each connection under the executor id and pings it.  One      *)
(* action is one listener or timer callback up to its next await; the      *)
(* network may stop carrying messages and closes at any time.  No close of *)
(* this backend carries code 1000, so every close event the extension sees *)
(* takes the reconnect branch of ws.onclose.                               *)
(***************************************************************************)

\* Bounds: reconnect attempts counted, messages passed to sendToBackend,
\* server pings counted without an answer, and start events of the worker.
MaxAttempts == 3

MaxMessages == 1

MaxSilence == 3

MaxStarts == 2

PING_INTERVAL == 30000

PONG_TIMEOUT == 60000

INITIAL_RECONNECT_DELAY == 1000

MAX_RECONNECT_DELAY == 30000

backendVars ==
  <<dbVars, chanVars, activeAISessions, procs, schedVars, GEMINI_API_KEY, gen, truncVars>>

IsOpen(k) == k # 0 /\ sockets[k].client = "open"

\* ws.close() on socket k.
Closed(s, k) ==
  [s EXCEPT ![k].client = IF @ \in {"connecting", "open"} THEN "closing" ELSE @]

\* attemptReconnect
AttemptReconnect(w) ==
  LET c == [w EXCEPT !.reconnectTimeout = 0]
      n == c.reconnectAttempts + 1
  IN  IF c.isConnecting THEN c
      ELSE [c EXCEPT !.reconnectAttempts = n,
                     !.reconnectTimeout =
                       Min({INITIAL_RECONNECT_DELAY * 2^(n - 1), MAX_RECONNECT_DELAY})]

\* initWebSocket without the guard on isConnecting.
InitWebSocketUnguarded(w, s) ==
  [w |-> [w EXCEPT !.reconnectTimeout = 0, !.ws = 0, !.isConnecting = TRUE,
                   !.initAwait = @ + 1],
   s |-> IF w.ws = 0 THEN s
         ELSE [Closed(s, w.ws) EXCEPT ![w.ws].attached = FALSE]]

\* initWebSocket up to its await of chrome.storage.local.get: the guard on
\* isConnecting, the pending reconnect timer, and the existing socket, which
\* is detached, closed and forgotten.
InitWebSocket(w, s) ==
  IF w.isConnecting THEN [w |-> w, s |-> s]
  ELSE [w |-> [w EXCEPT !.reconnectTimeout = 0, !.ws = 0, !.isConnecting = TRUE,
                        !.initAwait = @ + 1],
        s |-> IF w.ws = 0 THEN s
              ELSE [Closed(s, w.ws) EXCEPT ![w.ws].attached = FALSE]]

\* clearTimeout(connectionTimeout)
ClearConnectionTimeout(w) == [w EXCEPT !.connTimers = @ \ {w.connectionTimeout}]

\* ws.onclose (after ws.onerror when the socket failed).
OnClose(w) ==
  AttemptReconnect([ClearConnectionTimeout(w) EXCEPT !.isConnecting = FALSE,
                                                     !.pingInterval = FALSE])

\* sendToBackend: ws.send on an open socket (the message reaches the backend
\* if the network carries it and the backend's end is open), else a timer
\* that calls sendToBackend again after a second.
SendToBackend(o) ==
  IF IsOpen(worker.ws)
    THEN IF linkUp /\ sockets[worker.ws].srv = "open"
           THEN [o EXCEPT !.delivered = @ + 1]
           ELSE [o EXCEPT !.lost = @ + 1]
    ELSE [o EXCEPT !.queued = @ + 1]

\* chrome.runtime.onInstalled or onStartup (each fires at most once while the
\* service worker lives): startConnectionCheck and, after 100 ms,
\* initWebSocket.
Startup ==
  /\ worker.started < MaxStarts
  /\ LET r == InitWebSocket([worker EXCEPT !.started = @ + 1], sockets) IN
       worker' = r.w /\ sockets' = r.s
  /\ UNCHANGED <<backendVars, linkUp, server, outbox>>

\* The reconnect timer fires and calls initWebSocket.
ReconnectTimer ==
  /\ worker.reconnectTimeout # 0
  /\ LET r == InitWebSocket([worker EXCEPT !.reconnectTimeout = 0,
                                           !.waits = Append(@, worker.reconnectTimeout)],
                            sockets)
     IN  worker' = r.w /\ sockets' = r.s
  /\ UNCHANGED <<backendVars, linkUp, server, outbox>>

\* chrome.storage answers: the socket is created, its handlers are set and
\* the connection timer is started.
CreateSocket(k) ==
  /\ worker.initAwait > 0
  /\ sockets[k].client = "none"
  /\ \A j \in Sockets : j < k => sockets[j].client # "none"
  /\ sockets' = [sockets EXCEPT ![k] = [client |-> "connecting", attached |-> TRUE,
                                        srv |-> "none"]]
  /\ worker' = [worker EXCEPT !.initAwait = @ - 1, !.ws = k, !.connectionTimeout = k,
                              !.connTimers = @ \cup {k}]
  /\ UNCHANGED <<backendVars, linkUp, server, outbox>>

\* The connection timer started with socket k fires.
ConnectionTimer(k) ==
  /\ k \in worker.connTimers
  /\ worker.reconnectAttempts < MaxAttempts
  /\ LET w == [worker EXCEPT !.connTimers = @ \ {k}] IN
       IF w.ws # 0 /\ sockets[w.ws].client = "connecting"
         THEN /\ sockets' = Closed(sockets, w.ws)
              /\ worker' = AttemptReconnect([w EXCEPT !.isConnecting = FALSE])
         ELSE /\ worker' = w
              /\ UNCHANGED sockets
  /\ UNCHANGED <<backendVars, linkUp, server, outbox>>

\* wss.on('connection'): the backend registers the socket under the executor
\* id, whatever is registered, and starts to ping it.
ServerAccept(k) ==
  /\ sockets[k].client = "connecting"
  /\ sockets[k].srv = "none"
  /\ linkUp
  /\ sockets' = [sockets EXCEPT ![k].srv = "open"]
  /\ server' = [registered |-> k, silence |-> 0]
  /\ UNCHANGED <<backendVars, worker, linkUp, outbox>>

\* ws.onopen, and the 'connected' message of the backend.
ClientOpen(k) ==
  /\ sockets[k].client = "connecting"
  /\ sockets[k].srv = "open"
  /\ linkUp
  /\ sockets' = [sockets EXCEPT ![k].client = "open"]
  /\ worker' =
       IF sockets[k].attached
         THEN [ClearConnectionTimeout(worker) EXCEPT
                 !.isConnecting = FALSE, !.reconnectAttempts = 0, !.lastPongTime = 0,
                 !.pingInterval = TRUE, !.waits = <<>>]
         ELSE worker
  /\ UNCHANGED <<backendVars, linkUp, server, outbox>>

\* The connection attempt fails (refused, or unreachable): ws.onerror, then
\* ws.onclose.
ClientFail(k) ==
  /\ sockets[k].client = "connecting"
  /\ worker.reconnectAttempts < MaxAttempts
  /\ sockets' = [sockets EXCEPT ![k].client = "closed"]
  /\ worker' = IF sockets[k].attached THEN OnClose(worker) ELSE worker
  /\ UNCHANGED <<backendVars, linkUp, server, outbox>>

\* The close of socket k completes in the extension, or the extension
\* notices that an open socket is gone: ws.onclose if it is still set.
ClientClosed(k) ==
  /\ \/ sockets[k].client = "closing"
     \/ sockets[k].client = "open" /\ (sockets[k].srv = "closed" \/ ~linkUp)
  /\ worker.reconnectAttempts < MaxAttempts
  /\ sockets' = [sockets EXCEPT ![k].client = "closed"]
  /\ worker' = IF sockets[k].attached THEN OnClose(worker) ELSE worker
  /\ UNCHANGED <<backendVars, linkUp, server, outbox>>

\* ws.on('close') in the backend: extensionConnections.delete(extensionId).
ServerClose(k) ==
  /\ sockets[k].srv = "open"
  /\ sockets[k].client \in {"closing", "closed"} \/ ~linkUp
  /\ sockets' = [sockets EXCEPT ![k].srv = "closed"]
  /\ server' = [server EXCEPT !.registered = 0]
  /\ UNCHANGED <<backendVars, worker, linkUp, outbox>>

\* The extension's ping interval: on an open socket it closes the socket if
\* the last message of the backend is older than PONG_TIMEOUT, else sends a
\* ping; without an open socket it stops itself.
ClientPingTick ==
  /\ worker.pingInterval
  /\ LET k == worker.ws
         age == worker.lastPongTime + 1
     IN  IF IsOpen(k)
           THEN /\ worker' = [worker EXCEPT !.lastPongTime = age]
                /\ IF age * PING_INTERVAL > PONG_TIMEOUT
                     THEN sockets' = Closed(sockets, k) /\ UNCHANGED server
                     ELSE /\ UNCHANGED sockets
                          /\ server' = IF linkUp /\ sockets[k].srv = "open"
                                         THEN [server EXCEPT !.silence = 0]
                                         ELSE server
           ELSE /\ worker' = [worker EXCEPT !.pingInterval = FALSE]
                /\ UNCHANGED <<sockets, server>>
  /\ UNCHANGED <<backendVars, linkUp, outbox>>

\* The backend's ping interval of the registered socket sends a ping; the
\* extension notes its arrival and answers with a pong.
ServerPingTick ==
  /\ server.registered # 0
  /\ sockets[server.registered].srv = "open"
  /\ server.silence < MaxSilence
  /\ LET k == server.registered
         arrives == linkUp /\ sockets[k].client = "open" /\ sockets[k].attached
     IN  /\ worker' = IF arrives THEN [worker EXCEPT !.lastPongTime = 0] ELSE worker
         /\ server' = [server EXCEPT !.silence = IF arrives THEN 0 ELSE @ + 1]
  /\ UNCHANGED <<backendVars, sockets, linkUp, outbox>>

\* The network stops or starts carrying messages.
LinkChange ==
  /\ linkUp' = ~linkUp
  /\ UNCHANGED <<backendVars, worker, sockets, server, outbox>>

\* startConnectionCheck: every 60 seconds, attemptReconnect if the socket is
\* not open and no attempt is in progress.
ConnectionCheck ==
  /\ worker.started > 0
  /\ ~IsOpen(worker.ws)
  /\ ~worker.isConnecting
  /\ worker.reconnectAttempts < MaxAttempts
  /\ worker' = AttemptReconnect(worker)
  /\ UNCHANGED <<backendVars, sockets, linkUp, server, outbox>>

\* executeTask has run an action and passes its task_result to sendToBackend.
TaskDone ==
  /\ worker.started > 0
  /\ outbox.queued + outbox.delivered + outbox.lost < MaxMessages
  /\ outbox' = SendToBackend(outbox)
  /\ UNCHANGED <<backendVars, worker, sockets, linkUp, server>>

\* The timer of a queued message fires and calls sendToBackend again.
RetryTimer ==
  /\ outbox.queued > 0
  /\ outbox' = SendToBackend([outbox EXCEPT !.queued = @ - 1])
  /\ UNCHANGED <<backendVars, worker, sockets, linkUp, server>>

ChannelNext ==
  \/ Startup
  \/ ReconnectTimer
  \/ \E k \in Sockets : CreateSocket(k)
  \/ \E k \in Sockets : ConnectionTimer(k)
  \/ \E k \in Sockets : ServerAccept(k)
  \/ \E k \in Sockets : ClientOpen(k)
  \/ \E k \in Sockets : ClientFail(k)
  \/ \E k \in Sockets : ClientClosed(k)
  \/ \E k \in Sockets : ServerClose(k)
  \/ ClientPingTick
  \/ ServerPingTick
  \/ LinkChange
  \/ ConnectionCheck
  \/ TaskDone
  \/ RetryTimer

ChannelSpec == Init /\ [][ChannelNext]_vars

\* C33: every wait between two connection attempts since the last successful
\* open follows the schedule 1 s, 2 s, 4 s, 8 s, 16 s and then 30 s: the
\* i-th wait that elapsed is min(INITIAL_RECONNECT_DELAY * 2^(i-1),
\* MAX_RECONNECT_DELAY), whatever made the previous attempt fail.
ReconnectBackoffSchedule ==
  \A i \in DOMAIN worker.waits :
    worker.waits[i] = Min({INITIAL_RECONNECT_DELAY * 2^(i - 1), MAX_RECONNECT_DELAY})

\* C39: the extension never has two sockets open or connecting at once.  At
\* most one connection attempt is in progress (initWebSocket waiting for the
\* storage, or a socket connecting), none is in progress while a socket is
\* open, and every socket other than the current one has been detached and
\* closed.
SingleConnection ==
  LET live == {k \in Sockets : sockets[k].client \in {"connecting", "open"}} IN
    /\ Cardinality(live) + worker.initAwait <= 1
    /\ worker.initAwait > 0 => worker.ws = 0 /\ worker.isConnecting
    /\ \A k \in Sockets :
         k # worker.ws =>
           ~sockets[k].attached /\ sockets[k].client \in {"none", "closing", "closed"}

\* A second socket is connecting after an open one was replaced by a start
\* event: the first is detached and closing.
ReplacedOpenSocket ==
  /\ worker.started = 2
  /\ worker.ws = 2
  /\ sockets[2].client = "connecting"
  /\ sockets[1].client = "closing"
  /\ sockets[1].srv = "open"
  /\ ~sockets[1].attached

\* C35: the registry holds an entry for the executor id exactly when the most
\* recently connected socket of that id is still open at the backend, and
\* the entry is that socket; the close event of an older socket leaves the
\* entry of a newer connection in place.
RegistryPointsAtLatest ==
  LET connected == {k \in Sockets : sockets[k].srv # "none"}
      latest == IF connected = {} THEN 0
                ELSE CHOOSE k \in connected : \A j \in connected : j <= k
  IN  server.registered =
        IF latest # 0 /\ sockets[latest].srv = "open" THEN latest ELSE 0

\* C32: a channel on which nothing has arrived for more than PONG_TIMEOUT is
\* not left in use, on either side: the extension's current socket is not
\* open with a last message of the backend older than PONG_TIMEOUT, and the
\* backend's registered socket is not open with more than PONG_TIMEOUT since
\* it last heard from the extension.
SilentChannelNotInUse ==
  /\ IsOpen(worker.ws) => worker.lastPongTime * PING_INTERVAL <= PONG_TIMEOUT
  /\ server.registered # 0 /\ sockets[server.registered].srv = "open"
       => server.silence * PING_INTERVAL <= PONG_TIMEOUT

\* C40: a message that sendToBackend could not send because the socket was
\* not open is not lost: when it leaves the retry queue it reaches the
\* backend.
QueuedMessageDelivered ==
  [][outbox'.queued < outbox.queued => outbox'.delivered > outbox.delivered]_vars

====
